# FluxGraph: TLA+ models

FluxGraph runs an agent as a walk over a graph of nodes. A session is started or
resumed through the engine, which executes one node after the other, stores the
session's state when the walk ends or pauses, keeps a task record for A2A clients
and publishes events that an HTTP server streams to them. These modules model the
parts whose correctness depends on order, on concurrency or on long sequences of
legal calls. TLC checks them on small instances; TLAPS proves what matters most for
every value of the constants.

## The system

| Component | State | Operations | Talks to |
|---|---|---|---|
| Engine (`engine/engine.go`) | none of its own; each call holds an `AgentState` | `Start`, `Resume`, `runLoop` | Graph, MemoryStore, TaskStore, EventBus, hooks, retry policy |
| Graph and Builder (`graph/`) | nodes, edges, entry, terminals | `AddNode`, `AddEdge`, `AddConditionalEdge`, `SetEntry`, `SetTerminal`, `Build` | the engine walks its result |
| CircuitBreaker (`engine/resilience.go`) | state, failure count, time of opening | `Allow`, `RecordSuccess`, `RecordFailure` | callers of a remote service |
| RetryPolicy (`engine/resilience.go`) | none | `Execute` | wraps `Node.Process` |
| EventBus (`memory/eventbus.go`) | handlers per event type | `Publish`, `Subscribe`, `Unsubscribe` | engine publishes, SSE and webhooks subscribe |
| A2A server (`a2a/server.go`) | one channel per SSE connection | `message/send`, SSE stream, replay, push configuration | engine, TaskStore, EventBus |
| A2A client, `DelegateNode` (`a2a/client.go`, `a2a/delegate_node.go`) | one goroutine and channel per stream | `Discover`, `SendMessage`, `StreamEvents`, `Process` | a remote A2A server |
| Authentication (`a2a/auth.go`) | none | the middleware, `HasScope` | in front of the A2A server |
| MemoryStore (`memory/store.go`, `storage/redis_store.go`, `storage/postgres_store.go`) | checkpoints and latest state per session | `Save`, `Load`, `LoadCheckpoint`, `AppendMessages`, pruning | engine, inspector |
| TaskStore (`storage/task_store.go`) | task records, indexes | `Create`, `UpdateStatus`, `AddWebhook`, lists | engine, server, webhooks |
| Webhook dispatcher (`a2a/webhook.go`) | none | one goroutine per event, three attempts | EventBus, TaskStore |
| Tool registry, sandbox, built-in tools (`tools/`) | tools, permissions per tenant | `Register`, `GrantPermission`, `RevokePermission`, `AuthorizeCall`, `ExecuteConcurrent` | nodes that run tools |
| ReAct planner (`planner/react.go`) | the plan, in a variable of the state | `Plan`, `Revise` | names the next node |
| Providers (`providers/`) | a breaker per provider | `Generate`, `GenerateStream` | remote models |
| Inspector (`observability/inspector.go`) | none | `GetTimeline`, `Diff`, `ReplayFrom` | MemoryStore, engine |
| Audit log (`security/audit.go`) | bounded channel | `OnHook`, `LogViolation`, `Close` | engine hooks |

What is hard here: two calls on one session that nothing keeps apart; crashes
between the nodes of a walk; errors of `Save` that are ignored; one field,
`LastNodeID`, with two meanings; handlers called outside the bus's lock; a bounded
channel whose reader may be gone; outcomes reported to the breaker long after the
request was admitted; read-modify-write of tasks without a transaction; transactions
that do not see each other's rows; retries around a fallback around breakers that
other callers share; goroutines that hand over what nobody may be waiting for;
permissions that change while a batch of tools runs.
`PROJECT.json` lists these hazards at their lines, with the properties that would
catch them and, where none does, the reason.

## Modules

| Module | Models | Proofs |
|---|---|---|
| `Graph` | the data of `graph/graph.go`; validity and static reachability | |
| `GraphBuilder`, `Reachability` | `graph/builder.go`; the search inside `Build`, loop by loop | `GraphBuilderProofs` |
| `Engine` (with `MCEngine`) | `engine/engine.go` and what it uses of the stores and the bus | `EngineProofs` |
| `SessionLifecycle` | abstract: what a reader of the MemoryStore may rely on | in `EngineProofs` |
| `CircuitBreaker` (with `MCResilience`) | `CircuitBreaker` of `engine/resilience.go` | `RemoteProofs` |
| `RedisMemoryStore` (with `MCRedisMemoryStore`) | the writes of `storage/redis_store.go` through `storage/redis_driver.go` | `RedisMemoryStoreProofs` |
| `PostgresMemoryStore` (with `MCPostgresMemoryStore`) | `storage/postgres_store.go` through `storage/pgx_driver.go` | `PostgresMemoryStoreProofs` |
| `NewestWindow` | abstract: what "keep the latest n" promises under concurrent writers | in the proofs of both stores |
| `TaskServer` (with `MCTaskServer`) | `storage/task_store.go` and the handlers and runs that write through it (`a2a/server.go`, `a2a/grpc_server.go`, the reports of `engine/engine.go`) | `TaskServerProofs` |
| `EventStream` (with `MCEventStream`) | `memory/eventbus.go` and `handleTaskEvents` of `a2a/server.go` | `EventStreamProofs` |
| `Prompt` | the conversions of `providers/openai.go` and `providers/anthropic.go`, `Message.Validate` | `RemoteProofs` |
| `ModelCall` (with `MCResilience`), extends `Prompt` | `RetryPolicy` of `engine/resilience.go` around `providers/fallback.go` and both providers, their streams included | `RemoteProofs` |
| `Delegation` (with `MCDelegation`) | `a2a/delegate_node.go`, `a2a/client.go`, `a2a/webhook.go`, `a2a/auth.go` and the server's side | `RemoteProofs` |
| `ToolRegistry` | `tools/` | |
| `ReActAgent` (with `MCReActAgent`), extends `ToolRegistry` | `planner/react.go` and the tool batches of its rounds | `ReActAgentProofs` |

### Engine

`runs[r]` is a goroutine inside `Start` or `Resume`: where it is (`pc`), its session
and the fields of its `AgentState` that control the walk. `store` and `tasks` are
what the MemoryStore and the TaskStore hold. A run owns its `AgentState`, so a step
reaches from one access to shared data to the next: `ResumeLoad` ends after `Load`,
`ProcessNode` covers the hooks, the node with its retries and the step count,
`SyncTask` and `OnError` the task update, `Pause` the save and `Publish` the event
after it. `Start`, `ResumeRoute`, `ReturnFinished`, `ReturnOutOfSteps`,
`ReturnNodeMissing`, `Fail` and `Advance` are the other returns and branches of the
source. Nodes and routers are user code and may return anything: an error, no state, any
status, a forced next node, an unknown node, a router error; only a node that returns neither a
result nor an error is left out, on which the loop panics (`engine.go:212`). `Start` gets a new state, as
from `message/send`; the replay of a checkpoint is not modelled here (see below). `Crash` ends every run.
Three constants say what the environment does: `SerialCallers` (nobody runs one
session twice at a time), `SaveMayFail`, `MayCrash`. Variables, messages and artifacts
of the state decide nothing in the loop and are left out. So are hooks, which only
observe. `gen`, `ran`, `said`, `starts` and `announced` are history: which `Start` a
state stems from, which node ran last and what status it returned, what was announced.

`SessionLifecycle` is the promise to readers: a session is recorded as Paused any
number of times, then at most once as Completed or Failed, its steps never go back,
and only another `Start` opens it again.

### GraphBuilder and Reachability

The builder's fields are variables; each call is an action that is possible while no
`Build` is running, before and after earlier builds. `Build` makes its checks and
starts the search; `Take` is one turn of the outer loop, `Scan` one turn of the
inner loop; `BuildReturn` warns and copies. `StaticWalk` restates, for the
properties, how the engine chooses edges: the first one registered for a node. `Engine` assumes of its graph `ValidGraph`, which
`BuildValidates` proves of every built graph. It also assumes that no node has the
empty id, which the builder does not check.

### CircuitBreaker

The definitions carry the breaker's name (`BreakerSpec`, `BreakerTypeOK`), so that its proofs
can share a module with those about model calls, which have a breaker of another kind. Each method is one critical section and one action. A request is admitted by `Allow`
and its outcome reported at any later time and in any order. Time is the flag
`timedOut`: `openTimeout` has passed since the breaker opened. `healthy` is the guarded
service; a request that was in flight while it failed (`exposed`) may be reported as a
failure also after it has recovered, any other succeeds. `streak` is history, the failures reported since
the last success, kept up to the threshold. The breaker shares no state with the model calls, so
`MCResilience` checks both in one run, each with the other at rest (`part`).

### EventStream

`Publish` copies the handlers under the lock; `Call` and `Handle` run them without it,
one by one. `Subscribe` and `Unsubscribe` are the connection's subscriptions and their
deferred undoing, one critical section each. A full channel makes `Handle` wait.
A connection leaves when its client hangs up or after `TaskCompleted`. `written` is
what the client got and `owed` what was published for the connection while it was
subscribed (both history). Keep-alives have no state. Writing to the client is
assumed not to fail; a failed write shows as the end of the request context.

### RedisMemoryStore and NewestWindow

`TxExec` is a pipeline, so each Redis command is an action: `SetState`, `SetData`,
`AddToIndex` for `Save`, with `pruneCheckpoints` as the goroutine after it; `Push` and
`LTrim` for `AppendMessages`. `Break` ends a pipeline after any of its commands, the last
one too (the answer is lost). `ExpireState` and `ExpireData` are the two times to live:
the data of a checkpoint lives twice as long as the state key that is written just
before it, so it outlives that value of the key. Two Saves in one millisecond have the
same score, and Redis orders them by their random ids, so any of them may be pruned first.
A command runs at most once: that go-redis sends a failed pipeline again is not modelled.
Reads change nothing and are no actions. `NewestWindow` is the promise: an entry is only
dropped once `Max` others at least as new have been stored, and never comes back.

### TaskServer

A request is a handler that works on one task of one tenant. `handleSendMessage` with
`GetExisting`, `handleCreatePushConfig`, `handleReplayFrom` and `GRPCSendMessage` are the
ways it arrives; `Create`, `UpdateStatus` and `AddWebhook` of the store are split at every Redis
command (`CreateRecord`, `CreateContext`, `CreateTenant`; `Read`, `Set`, `Index`), and `Break`
ends a pipeline before any of them. `StartRun` starts the engine's goroutine and
answers. That goroutine reports after nodes (`Report`, `ReportSet`, `ReportIndex`), always as the
default tenant, because it has a context of its own, and to the task that its state names:
none for a resumed task, the original one for a replay. A request that is refused before it
reaches the store is no request here. A token without a tenant looks tasks up
under an empty tenant and finds none, which is one of the outcomes of `GetExisting` and
`NotFound`. `by` (who created a record) and `overlaps` (keys that a second writer read before the
first one wrote) are history. The lists of messages and artifacts are written and
never read back; they, the histories and the time to live of a week are left out.

### PostgresMemoryStore

`Save` and `AppendMessages` are transactions, and each statement that another transaction
can notice is an action: `BeginTx` (which waits for a connection of the pool), `UpsertSession`,
`UpsertState`, `CommitSave`; `InsertMessage`, `TrimSelect`, `TrimDelete`, `CommitAppend`; and
`PruneSelect`, `PruneDelete` for the goroutine after a Save. PostgreSQL is external and runs
READ COMMITTED: a statement sees what is committed and its own rows, and waits for a row
somebody else has written (`lock`, `TrimDelete`). `NOW()` is the time at which a transaction
began (`stamp`). It is the wall clock of the database in microseconds: `BeginTx` takes any of `Times`, so
transactions may have the same time, time may go back, and commit order differs from time order;
messages of one batch always tie. `MaxConns` is the pool of one process. `Fail`
is an error at any statement with the deferred rollback; `CommitSave(c, FALSE)` commits and
loses the answer. `saved` and `appended` are history. `Load`, `LoadCheckpoint` and
`ListCheckpoints` are operators: they change nothing.

### Prompt and ModelCall

A caller runs `RetryPolicy.Execute` around `FallbackChainProvider`: `Begin`, then for each provider
`Unbuildable` or `Send`, and `TransportFails`, `StatusError`, `BadBody`, `Answer` or `OpenStream`;
`Exhausted` ends a pass through the chain and decides between `Retry` (after the wait),
`RetryCancelled` and an error. Each provider has a gobreaker that all callers share; the library
is external and `Admits`, `Reported` and `Expire` model it from its settings here. A stream is
a goroutine: `ScanLine`, `ScanEnds`, `Receive`; its reader may leave (`StopReading`) and its
context end (`Cancel`). `NextTurn` puts the answer and the tool results into the
conversation, so that the next call maps what the previous one produced, possibly for the
other provider and possibly from a state that was stored in between. `Prompt` has the
mappings: messages and tools to both request formats, both replies to messages, lines of
both event streams to token deltas; and `Validate`, which says which parts a message of each
role may have. Delays, token counts and JSON syntax are left out.
`Execute` is used here around a model call; the engine uses it around `Node.Process`, whose
outcomes `Engine` covers by letting a node return anything.

### Delegation

One delegated task with everybody who takes part. `Discover`, `SendMessage`, `StreamEvents`,
`Consume`, `RangeEnds` are `DelegateNode.Process`; `ReadLine`, `Put`, `PutCancelled`, `ReadFails` the
goroutine of the client; `Subscribe`, `ServeEvent`, `KeepAlive`, `ServerGone` the handler of the
remote server; `Lookup`, `Notified`, `NotifyFails` one goroutine of the webhook dispatcher per
event. The connection in between may break at any time (`Cut`), and does so after the 30
seconds of the HTTP client. `Answers` has the middleware's verdict on the token and the scopes.
The remote run is external: only tests in `src/` publish `NodeCompleted` and `TaskCompleted`,
so they come in any number and order before a last `TaskCompleted`, or never. `accepted`
(what the server's subscription took in), `fate` (what became of each notification) and
`broken` are history.

### ToolRegistry and ReActAgent

`ExecuteConcurrent` starts a goroutine per call; `AuthorizeCall`, `FindTool` and the end of the tool
(`ToolReturns`, `ToolTimesOut`) are separate steps, because the lock is released between them.
`Authorized` matches a permission pattern exactly, as `*`, or as a prefix; which names begin with which
prefix is the constant `Prefixed`. The sandbox calls the tool and waits, with a deadline on the context,
so only tools that look at their context time out: the built-in ones and those in `Heeding`.
`Register`, `GrantPermission` and `RevokePermission` come in between; `window` is history, the
permissions the tenant has had since the batch began. `Plan` and `Revise` are the planner;
the nodes it names (`LLMNode`, `ToolNodeBegins`, `ToolNodeEnds`) and the loop that calls `Revise` are not
in `src/` and do what the planner's comments ask of them or less. `Reload` is a pause in a
store that keeps states as JSON, which turns the plan into a map.

## Runs

| Run | Shows |
|---|---|
| `engine_serial` | With serial callers: completion only at a terminal node or at the end of the graph, no lost session, no event ahead of the store, and the refinement of `SessionLifecycle`. |
| `engine_free` | With racing callers, crashes and failing saves: a paused session still stands at the node that ran last, and every call returns. |
| `engine_input_required` | *Violated.* A pause does not show as `input_required`: the status is synced before `Paused` is set. |
| `builder` | Graphs that `Build` returned stay valid, and the search ends and finds exactly the statically reachable nodes. |
| `stream` | Publishers and watchers of two tasks: nothing lost, nothing twice, order kept, no handler left behind, and a publisher is held up for good only by a watcher of its own task that has left. |
| `redis` | Overlapping Saves and appends with broken pipelines, late prunes and expiry: state, data and index agree, the index refines `NewestWindow`, the messages are the newest ones. |
| `postgres` | Overlapping transactions with rollbacks and lost answers: the version counts the commits, checkpoints and messages refine `NewestWindow`, the current state is in its timeline, and overlaps exceed the message limit by no more than the pool allows. |
| `tasks` | Requests of every kind on the same or different tasks, their runs and broken pipelines: created records are listed, started runs have a record, a webhook gets lost only where two writers overlapped, every request is answered. |
| `resilience` | The circuit breaker: under late reports in any order a closed breaker was told of fewer than threshold failures since the last success, and it closes for good once the service stays healthy. Model calls: they end with an answer or a final error after every provider had its attempts, requests carry every tool call with its result, streams lose nothing and end once, and all goroutines end but that of a reader who left. |
| `delegation` | Artifacts arrive in order and without gaps, a dispatch reaches exactly the webhooks whose filter passes, and node, goroutine, handler and dispatches end whatever the remote run does. |
| `agent` | Tool results tell the truth under changing permissions, the plan follows the run in order and within its limit, and the agent ends. |
| `agent_plan` | *Violated.* A completed step does not hold its own observation: the planner is a step behind and gives it its successor's. |

The two violated properties state what comments and documents say of the program; the findings
in `PROJECT.json` quote the lines and name the code.

More disagreements follow from the sources without a run:

* A success that is reported late closes an open breaker without a probe
  (`resilience.go`, `RecordSuccess`); `docs/setup/Phase2.md:292` lets only a probe close it.
* The breaker counts failures since the last success: a success wipes the count and failures do not
  age. `resilience.go:80-81` and `docs/setup/Phase2.md:290` speak of a failure rate over a sliding
  window. `ClosedMeansFewFailures` says only that the breaker opens in time by its own count.
* A half-open breaker lets every request through (`resilience.go:114`); `docs/setup/Phase2.md:291` allows
  a single probe.
* Permissions are looked at in the goroutine of each call (`registry.go:125`);
  `registry.go:14` has "pre-dispatch auth checks" and `docs/setup/Phase2.md:102-104` has all calls
  checked before the goroutines start. Calls of one batch may therefore be judged by different
  permissions, and `ResultsTruthful` asks for some moment of the batch.
* `TxExec` is a plain pipeline; `redis_store.go:27` says "executes commands atomically" and
  `docs/setup/Phase2.md:162` that `Save` uses MULTI/EXEC to write state and checkpoint together.
  `StateHasCheckpoint` excuses Saves whose pipeline broke.
* A watcher that left with a full channel holds up `Publish`, and with it the run, for ever;
  `docs/setup/Phase3.md:232` says a lost connection does not affect the task. `OnlyOwnLeaverBlocks`
  says that this is the only way.
* `UpdateStatus` writes the whole record, so it can undo an `AddWebhook` in between;
  `interfaces/task.go:17` says it updates only the status. `WebhookLostOnlyToOverlap` says when.
* A terminal node that reports Failed is recorded as Completed (`engine.go:263`), which is why
  `CompletedOnlyWhenDone` asks for a terminal node and not for its verdict.
* `checkReachability` follows every static edge where the engine only takes the first, so a
  node behind a second edge is not warned of (`builder.go:78`), which is why `WarningsSound`
  goes in one direction only.
* `DelegateNode` appends to the state it was given and returns it, so the slice of new artifacts
  (`engine.go:221`) is empty and none of them reaches the task store, unlike the comment
  above it says. When the stream cannot be opened it logs that it falls back to
  polling (`delegate_node.go:69`), and returns.
* The "optimistic version bump" (`postgres_store.go:107`) is never compared with anything: it counts
  Saves, and the last one wins.
* `MaxAttempts` = 0 makes `Execute` return nil without having called anything, and the engine
  dereferences the result. `AnswerOrError` excepts it.
* OpenAI's `mapMessages` keeps one of several tool results of a message, and of a chunk with
  several tool calls only the first. `PromptComplete` and `StreamComplete` except them. A piece of
  a tool call that has neither name nor arguments is passed on as an empty delta
  (`openai.go:404`), which `Saying` counts as something said.
* The planner's first step is set running by the first `Revise` only, so every step is completed one
  round late and with the observation of its successor (run `agent_plan`), and the limit ends the run
  after `maxRounds` + 1 nodes, where `docs/setup/Phase2.md:141` speaks of the rounds. The end
  is an ordinary terminal step, not a failed one.

### Bounds

* Engine: two goroutines, one session, three nodes with a static edge, a router, a
  second edge that is never taken, and a terminal node. Sessions do not interact except
  through goroutines, so one session with two goroutines has every race.
  `MaxSteps` 4 (2 with racing callers) is longer than the graph, so the limit is met
  both on the way and in a cycle (the router may go back). `MaxStarts` 2 lets a second `Start`
  meet the records of the first.
* Builder: the empty id and two others, and two edges: enough for a cycle, a
  self-loop, duplicate edges, a second edge that is never taken, and ids that are
  used and not registered. The proofs cover every number.
* Breaker: three callers and a threshold of two, so failures of requests admitted before
  the breaker opened are still out when it is half-open and when it is closed again.
* Stream: two tasks with a publisher and a connection each, and a channel of one (ten in the
  code); two events in one task, so one fills the channel and one waits, and one in the
  other, which fills its watcher's channel. Two of the three types are kept: the third is
  treated like one of them. The proofs cover any number for a task.
* Redis: three Saves for a window of two, in two milliseconds, so equal and different
  scores meet and something is pruned; an append of two messages and one of one for a
  window of one. The proofs cover every number of Saves and every limit.
* Postgres: two Saves and three appends, one of two messages, for windows of one and a pool of
  two connections, so that any two transactions overlap and a third one comes after. Two times, so
  that transactions tie, follow each other or find the clock set back. The proofs cover every
  number.
* Tasks: two requests with the runs they start, which makes four writers of one record;
  two tenants, one task id and one context that clients choose besides those the server
  makes up, and one report per run. A record is created again, replayed and resumed
  within these. The proofs cover every number.
* Model calls: a chain of both providers and two callers who share the breakers; one makes two
  calls with a policy of no or two attempts, the second of them after a turn of tool calls.
  A gobreaker trips after two failures (six in the code), so one caller trips it for the
  other. Streams have up to two lines, of every kind the code tells apart.
* Delegation: up to three events, a channel of one, one keep-alive, and five settings: a
  streaming client, one with webhooks, one whose task belongs to another tenant, one without
  the scope and one without a valid token.
* Agent: one session with or without a tenant, two rounds, batches of one and two calls,
  three changes of the registry. Sessions share only the registry, whose changes come at
  any time anyway.

`CHECK_DEADLOCK FALSE` is set where the system may rightly stop: callers need not call,
publishers need not publish, and the bounds end both.

### Fairness

`RunsReturn`: weak fairness of each goroutine's steps; the Go scheduler runs what can
run, and nodes, stores and `Publish` are assumed to return. `Recovers`: time passes,
callers keep asking and every admitted request is reported, as success or failure;
nothing says which. (`MCResilience` takes the fairness of `BreakerFairSpec` or of `FairSpec`, for the part
a behaviour is about.) `BuildReturns`: `Build` is sequential code. `OnlyOwnLeaverBlocks`: each goroutine goes on when it can; `Handle` gets strong fairness,
because a Go channel serves waiting senders in turn. `Answered`: each handler goes on,
because Redis calls return, with an answer or an error. `CallsAndStreamsEnd`: requests end and
bodies end, by the service or by a time limit. `DelegationEnds`: the goroutines
go on, and `Cut` happens, because the HTTP client limits a request with its body to 30 seconds;
nothing is assumed of the remote run. `AgentEnds`: nodes return, and tools do, by themselves or, the
built-in ones and those in `Heeding`, when their context is done. This is an assumption about the tools
of the host: the sandbox derives a context with a deadline, calls the tool and waits for it
(`sandbox.go:28-41`), so one that does not heed its context hangs the batch whatever its sandbox says. No fairness makes a client stay or
a caller call, and none makes a run return.

## Proofs

For every graph, every set of goroutines, sessions, callers, publishers and
connections, and every bound.

* `TypeCorrect` includes the step limit of running and of stored states: a
  loaded state is within it, and `ProcessNode` only runs below it.
* `PausedPosition` and `CompletionPosition`. Neither is inductive: what `Pause`
  stores is what the run holds. `PositionInv` adds `RunAtExecutedNode`: between `Process` and
  the decision, and between `Load` and the routing, the run's `LastNodeID` is the
  node that ran. No assumption on callers, crashes or saves is needed.
* `EngineImplementsLifecycle` under `SerialCallers`. `SerialInv`: one run per session,
  generations within the starts, and `RunAheadOfStore`: a run that has not saved yet
  continues the Paused record it was loaded from, or belongs to a later start.
  Without serial callers it is false: the slower of two runs overwrites the record
  of the faster one.
* `AnnouncedDurable` (serial callers, saves succeed) adds `PublishAfterSave`.
* `NoSessionLost` (and no crash) adds `AccountedFor`: a session is settled, or the run
  of its latest start is still on its way to a save.
* `ClosedBelowThreshold`, `BreakerTypeCorrect`: the counter against the streak of failures
  (`Counting`), which it equals while the breaker is closed.
* `CallsEndFinal`. `CallInv`: `Asked` says how often each provider has been asked, by its place in the
  chain before or after the caller's position; `Final` what a call that ended returned. Every
  provider before the position has had one turn more than those after it, so a call that gives
  up has asked all of them in all its attempts.
* `StreamsComplete`. `StreamInv`: `Flow` says that what the reader got, what is being handed over and
  what the scanned lines say are the same sequence, and that nothing follows Done. What a body
  says is a concatenation over its lines (`FlattenSeq`, a recursive function); the lemmas about
  it are proved by induction over a set of numbers (`NumbersFromZero`), because the library's
  induction theorems cannot be instantiated. `WholeIsPassedOn`: for a line that is not crowded
  the deltas passed on are all it says. The assumption on `Lines` only gives lines their fields.
* `RequestsComplete`. `PromptInv`: a request that is out is the mapping of the conversation as it is
  now (nothing joins a conversation while its caller waits), every conversation is `Sound`, and
  the answer that will join it is `Spoken`, texts and calls with ids. `Sound` is what must be
  carried from turn to turn: roles and parts fit as `Message.Validate` demands, and messages of
  unknown roles, which it accepts with any parts, hold neither calls nor results, so that none
  is in a message a provider leaves out (also System for Anthropic); and calls and results have the same ids, none empty, because OpenAI's format
  writes no result as an empty id. `SoundGrows` and `RepliesAnswer` carry it through `NextTurn`,
  `OpenAIAnswers` and `AnthropicAnswers` through the two replies. What the mappings keep of a
  sequence is `Among`, a concatenation of one-element sequences, so that `AmongHolds` follows from
  `FlattenHolds`. `ConversationAssumption`: the first conversations are `Sound` and the services give
  their calls ids. Nothing in `src/` calls `Validate`, so the first half is an assumption about whoever
  fills a state; the second is what both services promise.
* `DispatchesComplete`. `DispatchInv`: at every point of a dispatch the webhooks it is through with
  and those it has before it are together those of the look-up that match. What `Notifiable`
  keeps of a sequence is again a concatenation (`FlattenHolds`).
* `ArtifactsArriveInOrder`. `PipeInv` follows an artifact through five places: the server's channel, the
  connection, the hands of the client's goroutine, its channel, the node. `InLine`: what the
  node has and what is on its way (`Arriving`), read in this order, is always a beginning of what the
  subscription took in, all but the server's channel while the connection is open, and all of it
  once it ended undisturbed. `TakenIn`: the subscription took in an end of what was published.
  Neither is inductive without `LastOfAll` (`TaskCompleted` is the last event in each place, so that
  an end of the connection cuts nothing off) and `Places` (which states of the four parties go together).
  No assumption says that the connection holds: with a break only the first half is claimed. The
  model takes the server's channel to have room for all events, so `MaxEvents` is at most ten.
* `SearchCorrect`: `LoopInv` of `Reachability` says that whatever is found lies in
  every closed set around the entry, and that visited nodes have had their edges
  followed, up to the position of the scan. With an empty queue both give
  equality with `StaticReach`.
* `BuildValidates` and `WarningsAreSound`: while `Build` runs its checks stay true, and
  a returned graph keeps them; its warnings are the complement of `StaticReach`,
  which contains the engine's static walk.
* `NoLeakedSubscription`, `NoEventLost`, `StreamOrder`: the phases of a connection; what
  is owed is written, queued or pending; and `Numbered`: an event still pending for
  a connection is newer than all its publisher's events the connection has.
* `ListedCanBeLoaded` and `StateIsCheckpointed`: `Progress` says which commands of a Save
  are done. `IndexImplementsWindow`: a checkpoint that is out of the index is superseded
  by those that were ever in it. A prune leaves `maxCheckpoints` at least as new, and
  `SupersededGrows` keeps it so when later Saves come.
* `IndexStaysBounded`: the index is within its limit plus the Saves that owe a prune (`Owing`).
  An indexed Save owes one from the moment it is in the index until its prune, which leaves the
  limit at most, so that each step moves both sides alike (`BoundStep`).
* `MessagesStayNewest`. `MessageInv`: the list is an end of what was pushed (`IsEndOf`) and long
  enough. `PushKeepsEnd`: a push lengthens both; `TrimKeepsEnd`: a trim at any later time takes
  from the front and leaves the limit.

* `StoredRecordsAreListed` and `StartedRunsHaveRecords`. Old copies of records are written back
  at any time, so the invariant is about versions: `VersionsBelong` says that every version,
  stored, read or about to be written, stems from a request that creates tasks under that
  very key and context, and `AllListed` how far such a request has come. `StoreGrows`:
  nothing is ever taken away.
* `WebhooksAreLostOnlyToOverlaps`. `OverlapsKept`: two writers of one key that have both read
  are recorded as overlapping. `WebhooksKept`: without an overlap every version of the record
  in anybody's hands has the webhook. A record that is created again stems from
  another request, which needs `VersionsBelong`.

* `VersionIsSaves`. `VersionInv`: the row lock makes a transaction that is about to write a version
  the only one, and what it read is current; so the version is the number of commits.
* `WindowsImplemented` and `CurrentInTimeline`. `CheckpointInv` and `MessageInv`: a row that is gone,
  or that a delete has selected, is `Outdated`, there are enough others at least as new. A trim also
  counts rows of its own that nobody else sees, so the statement about what it selected
  is about those together with what is committed. Nothing
  is assumed of the times; that is why `CurrentIsListed` counts Saves of the same time, too.
* `MessagesStayBounded`. A trim of a transaction leaves `MaxMessages` of the rows it saw, so what
  others commit after that adds up; how much is limited by the transactions that run at once
  (`PoolInv`). `ShareInv` says that there is, for each transaction that is trimming, a set of rows it
  had before it when it selected (`seen`), of which it leaves `MaxMessages` at most, and that
  what is committed beyond the sets of any `k` of them fits into `MaxConns` - `k` shares
  (`Shares`). `SelectShares` and `CommitShares` carry this through selecting and committing.
* `ResultsAreTruthful`. `TruthInv`: a goroutine that is past `AuthorizeCall` was permitted, and a
  result that is set is true, each by permissions in `window`, which only grows and always has
  the current ones while a batch runs.
* `PlansFollowRuns`. `PlanInv`: `Counts` relates the numbers of steps, executed nodes and observations at each
  point of a round, `Contents` says what the steps hold, and `Lagging` that exactly one step is
  running, the one after the completed ones. `Revise` first catches up (`Caught`), then starts the
  next step. A reload changes the form of the plan and none of it.

Only model-checked: the liveness properties (`RunsReturn`, `Recovers`, `BuildReturns`,
`OnlyOwnLeaverBlocks`, `Answered`, `CallsAndStreamsEnd`, `DelegationEnds`, `AgentEnds`), because temporal
reasoning with fairness is out of the prover's reach.

## Not modelled

* `AppendMessages` of the in-memory store: two critical sections with a known gap, called by
  nothing in the engine. Full-text and vector search: a query.
* The replay of a checkpoint as a start of the engine: `server.go:432` calls `Start` with the checkpoint's
  state, its steps, its node and its task. `TaskServer` has the request and the reports of its run;
  `Engine` starts new states only. A node that returns neither result nor error: a panic.
* Commands that go-redis sends again: `redis_driver.go:16-24` leaves `MaxRetries` at its default, so a
  pipeline whose answer is lost may run twice. In `RedisMemoryStore` and `TaskServer` each command
  runs at most once. A `SET` of a task that runs again later may undo another writer's change without an overlap that
  `WebhookLostOnlyToOverlap` would know of; a `RPUSH` that runs again doubles messages.
* When the headers of an event stream leave the server (`server.go:307-354`, with the first event or
  keep-alive): `StreamEvents` of `Delegation` is one step.
* Engine hooks (logging, counters, latencies), tracing and metrics: they observe and decide
  nothing.
* The audit log: a bounded channel that drops what does not fit; nothing reads it back.
  Guard and sanitizer: patterns in text. `Delegation` knows that a message may be rejected.
* Reading endpoints of the server, the stub for cancellation, the inspector's timeline and
  comparison: no state. The lists of messages and artifacts of a task: written, not read.
* Evaluation harness and demo server: a sequential driver and an example program.
* Command line, configuration, mocks, generated protobuf code: wiring.
