----------------------------- MODULE Delegation -----------------------------
(***************************************************************************)
(* A task handed to a remote agent: DelegateNode.Process                   *)
(* (a2a/delegate_node.go) with the A2AClient it uses (a2a/client.go), the  *)
(* handlers of the remote a2a/server.go it talks to, and the               *)
(* WebhookDispatcher (a2a/webhook.go) that notifies others of the same     *)
(* events.                                                                 *)
(*                                                                         *)
(* The server's eventChan has room for ten events and is taken to have     *)
(* room for all of a run; EventStream is about the channel that is full.   *)
(* Payloads are left out but for the artifacts that NodeCompleted carries. *)
(***************************************************************************)
EXTENDS Naturals, Sequences, FiniteSets, SequencesExt

CONSTANTS
    Hooks,          \* webhooks
    Filter,         \* Filter[h]: EventTypes of h; the empty set lets all pass
    Settings,       \* what the delegation may meet: see Setting
    Default,        \* the tenant the dispatcher looks tasks up for
    MaxEvents,      \* model bound: events the remote run publishes
    MaxPings,       \* model bound: keep-alive comments
    OutCap          \* capacity of the channel StreamEvents returns (10)

EventTypes == {"NodeCompleted", "TaskCompleted", "AgentPaused"}

Unnamed == MaxEvents + 1

\* An event, with the artifact in its payload: its id, 0 for none, or
\* Unnamed for one whose id is not a string.  The engine's own AgentPaused names
\* the session and leaves TaskID empty.
Event == [type : EventTypes, artifact : 0..Unnamed, hasTask : BOOLEAN]

\* A token: whether its signature and its expiry pass, its tenant, its scopes.
Token == [valid : BOOLEAN, tenant : STRING, scopes : SUBSET STRING]

\* The client's token, Capabilities.Streaming of the remote agent's card, the
\* webhooks that may be registered for the task (none, and the remote server
\* runs without a dispatcher), and what its events may carry.
Setting == [token : Token, streaming : BOOLEAN, hooks : SUBSET Hooks,
            payloads : SUBSET {"none", "artifact", "unnamed"}]

ASSUME DelegationAssumption ==
    /\ MaxEvents \in Nat /\ MaxEvents <= 10
    /\ MaxPings \in Nat
    /\ OutCap \in Nat \ {0}
    /\ Settings \subseteq Setting
    /\ Filter \in [Hooks -> SUBSET EventTypes]

VARIABLES
    (* the node *)
    npc,        \* "discover", "send", "stream", "range", "over", "panic"
    setting,
    erred,      \* Process returned an error
    artifacts,  \* state.Artifacts
    ctxDone,    \* the context of the run is done
    broken,     \* the connection broke or was given up (history)
    (* the goroutine of StreamEvents *)
    gpc,        \* "none", "read", "put", "done"
    held,       \* the event it is about to put
    out,        \* its channel
    (* the connection *)
    conn,       \* "none", "open", "eof" (closed by the server), "cut"
    wire,       \* lines written and not yet read
    pings,      \* keep-alive comments written
    (* the server's handler of the events stream *)
    spc,        \* "none", "subscribing", "serving", "gone"
    subs,       \* event types it is subscribed to
    eventChan,  \* its channel
    accepted,   \* all events that were put there (history)
    (* the remote run, its task and the dispatcher *)
    running,    \* the run has been started
    published,  \* the events it has published
    tenant,     \* the tenant of the task
    webhooks,   \* webhooks of the task
    job,        \* job[i]: the goroutine of dispatch for the i-th event
    fate        \* fate[i][h]: what became of notifying h of the i-th event (history)

nodeVars   == <<npc, setting, erred, artifacts, ctxDone, broken>>
clientVars == <<gpc, held, out>>
connVars   == <<conn, wire, pings>>
serverVars == <<spc, subs, eventChan, accepted>>
runVars    == <<running, published, tenant>>
hookVars   == <<webhooks, job, fate>>
delegationVars == <<nodeVars, clientVars, connVars, serverVars, runVars, hookVars>>

NoEvent == [type |-> "none"]
Idle    == [pc |-> "none", todo |-> <<>>, tries |-> 0, saw |-> {}]
Ping    == [type |-> "ping"]

DelegationInit ==
    /\ npc = "discover"
    /\ setting \in Settings
    /\ erred = FALSE
    /\ artifacts = <<>>
    /\ ctxDone = FALSE
    /\ broken = FALSE
    /\ gpc = "none" /\ held = NoEvent /\ out = <<>>
    /\ conn = "none" /\ wire = <<>> /\ pings = 0
    /\ spc = "none" /\ subs = {} /\ eventChan = <<>> /\ accepted = <<>>
    /\ running = FALSE /\ published = <<>> /\ tenant = Default
    /\ webhooks = <<>>
    /\ job = [i \in 1..MaxEvents |-> Idle]
    /\ fate = [i \in 1..MaxEvents |-> [h \in Hooks |-> "none"]]
-----------------------------------------------------------------------------
(* Authentication and the handler of message/send *)

\* Middleware lets a request with a valid bearer token through.
Authenticated(t) == t.valid

\* agent:admin stands for every scope.
HasScope(t, scope) == {scope, "agent:admin"} \cap t.scopes # {}

\* What the remote server answers to message/send: the middleware answers 401
\* with a text, a message the sanitizer rejects and a missing scope are RPC
\* errors, and so is a record the store could not create.
Answers(t) ==
    CASE ~Authenticated(t) -> {"text"}
      [] Authenticated(t) /\ ~HasScope(t, "agent:write") -> {"rpcError"}
      [] OTHER -> {"rpcError", "task"}
-----------------------------------------------------------------------------
(* DelegateNode.Process *)

ProcessFails ==
    /\ npc' = "over"
    /\ erred' = TRUE
    /\ UNCHANGED <<setting, artifacts, ctxDone, broken>>

\* Discover: the request or the decoding of the card may fail.
Discover ==
    /\ npc = "discover"
    /\ \/ ProcessFails
       \/ /\ ~ctxDone
          /\ npc' = "send"
          /\ UNCHANGED <<setting, erred, artifacts, ctxDone, broken>>
    /\ UNCHANGED <<clientVars, connVars, serverVars, runVars, hookVars>>

\* The server creates the task and starts its run in the background.
StartRun ==
    /\ running' = TRUE
    /\ tenant' = IF setting.token.tenant = "" THEN Default ELSE setting.token.tenant
    /\ UNCHANGED published

\* SendMessage: the answer is decoded as JSON whatever its status, so a 401 is
\* a decoding error.  The answer of a server that started the run may be lost.
SendMessage ==
    /\ npc = "send"
    /\ ~ctxDone
    /\ \E answer \in Answers(setting.token) :
          \/ /\ answer = "task"
             /\ StartRun
             /\ \/ ProcessFails
                \/ /\ npc' = IF setting.streaming THEN "stream" ELSE "over"
                   /\ UNCHANGED <<setting, erred, artifacts, ctxDone, broken>>
          \/ /\ answer # "task"
             /\ ProcessFails
             /\ UNCHANGED runVars
    /\ UNCHANGED <<clientVars, connVars, serverVars, hookVars>>

SendFails ==
    /\ npc = "send"
    /\ ProcessFails
    /\ UNCHANGED <<clientVars, connVars, serverVars, runVars, hookVars>>

\* StreamEvents: the server accepts the connection and its handler begins to
\* subscribe; the client starts its goroutine.  In the code the headers leave
\* with the first event or keep-alive (server.go:307-354) and client.Do waits
\* for them; the node does nothing in between, so one step stands for both.
StreamEvents ==
    /\ npc = "stream"
    /\ Authenticated(setting.token)
    /\ ~ctxDone
    /\ npc' = "range"
    /\ gpc' = "read"
    /\ conn' = "open"
    /\ spc' = "subscribing"
    /\ UNCHANGED <<setting, erred, artifacts, ctxDone, broken, held, out, wire, pings,
                   subs, eventChan, accepted, runVars, hookVars>>

\* Without a stream the node logs that it falls back to polling, and returns.
StreamFails ==
    /\ npc = "stream"
    /\ npc' = "over"
    /\ UNCHANGED <<setting, erred, artifacts, ctxDone, broken,
                   clientVars, connVars, serverVars, runVars, hookVars>>

\* The goroutine ends: it closes the channel and the body.
Ends ==
    /\ gpc' = "done"
    /\ held' = NoEvent
    /\ conn' = "cut"
    /\ wire' = <<>>
    /\ UNCHANGED pings

\* One round of `for ev := range events`.  An artifact without an id of type
\* string panics, which nothing recovers from: the process ends.
Consume ==
    /\ npc = "range"
    /\ out # <<>>
    /\ LET ev == Head(out) IN
          /\ artifacts' = IF ev.type = "NodeCompleted" /\ ev.artifact \in 1..MaxEvents
                          THEN Append(artifacts, ev.artifact) ELSE artifacts
          /\ npc' = CASE ev.type = "NodeCompleted" /\ ev.artifact = Unnamed -> "panic"
                     [] ev.type = "TaskCompleted" -> "over"
                     [] OTHER -> "range"
    /\ out' = Tail(out)
    /\ IF npc' = "panic" THEN Ends ELSE UNCHANGED <<gpc, held, connVars>>
    /\ UNCHANGED <<setting, erred, ctxDone, broken,
                   serverVars, runVars, hookVars>>

\* The channel is closed and drained.
RangeEnds ==
    /\ npc = "range"
    /\ out = <<>> /\ gpc = "done"
    /\ npc' = "over"
    /\ UNCHANGED <<setting, erred, artifacts, ctxDone, broken,
                   clientVars, connVars, serverVars, runVars, hookVars>>

\* The context of the local run is done; the connection goes with it, and
\* a request under way fails.
CancelRun ==
    /\ npc \in {"discover", "send", "stream", "range"}
    /\ ~ctxDone
    /\ ctxDone' = TRUE
    /\ broken' = TRUE
    /\ conn' = IF conn = "open" THEN "cut" ELSE conn
    /\ UNCHANGED <<npc, setting, erred, artifacts, clientVars, wire, pings,
                   serverVars, runVars, hookVars>>
-----------------------------------------------------------------------------
(* The goroutine of StreamEvents *)

\* A line is read; comments, empty lines and the names of events are skipped.
ReadLine ==
    /\ gpc = "read"
    /\ wire # <<>>
    /\ wire' = Tail(wire)
    /\ IF Head(wire) = Ping THEN UNCHANGED <<gpc, held>>
       ELSE gpc' = "put" /\ held' = Head(wire)
    /\ UNCHANGED <<nodeVars, out, conn, pings, serverVars, runVars, hookVars>>

\* Mutant: the goroutine drops an event when its channel is full.
PutOrDrop ==
    /\ gpc = "put"
    /\ out' = IF Len(out) < OutCap THEN Append(out, held) ELSE out
    /\ IF held.type = "TaskCompleted" THEN Ends
       ELSE gpc' = "read" /\ held' = NoEvent /\ UNCHANGED connVars
    /\ UNCHANGED <<nodeVars, serverVars, runVars, hookVars>>

\* The event is handed on; TaskCompleted is the last one.
Put ==
    /\ gpc = "put"
    /\ Len(out) < OutCap
    /\ out' = Append(out, held)
    /\ IF held.type = "TaskCompleted" THEN Ends
       ELSE gpc' = "read" /\ held' = NoEvent /\ UNCHANGED connVars
    /\ UNCHANGED <<nodeVars, serverVars, runVars, hookVars>>

\* With the context done, select may drop the event.
PutCancelled ==
    /\ gpc = "put"
    /\ ctxDone
    /\ Ends
    /\ UNCHANGED <<nodeVars, out, serverVars, runVars, hookVars>>

\* Mutant: a failed read does not end the goroutine.
ReadOn ==
    /\ gpc = "read"
    /\ conn = "eof" /\ wire = <<>>
    /\ Ends
    /\ UNCHANGED <<nodeVars, out, serverVars, runVars, hookVars>>

\* The body ends, or reading it fails.
ReadFails ==
    /\ gpc = "read"
    /\ conn = "cut" \/ (conn = "eof" /\ wire = <<>>)
    /\ Ends
    /\ UNCHANGED <<nodeVars, out, serverVars, runVars, hookVars>>
-----------------------------------------------------------------------------
(* The connection (external) *)

\* The connection breaks, or the 30 seconds are over that http.Client gives a
\* request, the reading of its body included.
Cut ==
    /\ conn = "open"
    /\ conn' = "cut"
    /\ broken' = TRUE
    /\ UNCHANGED <<npc, setting, erred, artifacts, ctxDone,
                   clientVars, wire, pings, serverVars, runVars, hookVars>>
-----------------------------------------------------------------------------
(* The remote server: handleTaskEvents *)

\* The three subscriptions are made one after the other.
Subscribe ==
    /\ spc = "subscribing"
    /\ LET next == CASE subs = {} -> "NodeCompleted"
                     [] subs = {"NodeCompleted"} -> "TaskCompleted"
                     [] OTHER -> "AgentPaused"
       IN /\ subs' = subs \cup {next}
          /\ spc' = IF next = "AgentPaused" THEN "serving" ELSE spc
    /\ UNCHANGED <<nodeVars, clientVars, connVars, eventChan, accepted, runVars, hookVars>>

\* An event is written, and the handler returns after TaskCompleted.
ServeEvent ==
    /\ spc = "serving"
    /\ eventChan # <<>>
    /\ LET ev == Head(eventChan)
           last == ev.type = "TaskCompleted"
       IN /\ wire' = IF conn = "open" THEN Append(wire, ev) ELSE wire
          /\ conn' = IF last /\ conn = "open" THEN "eof" ELSE conn
          /\ spc' = IF last THEN "gone" ELSE spc
          /\ subs' = IF last THEN {} ELSE subs
    /\ eventChan' = Tail(eventChan)
    /\ UNCHANGED <<nodeVars, clientVars, pings, accepted, runVars, hookVars>>

KeepAlive ==
    /\ spc = "serving"
    /\ conn = "open"
    /\ pings < MaxPings
    /\ pings' = pings + 1
    /\ wire' = Append(wire, Ping)
    /\ UNCHANGED <<nodeVars, clientVars, conn, serverVars, runVars, hookVars>>

\* The request's context is done.
ServerGone ==
    /\ spc = "serving"
    /\ conn = "cut"
    /\ spc' = "gone"
    /\ subs' = {}
    /\ eventChan' = <<>>
    /\ UNCHANGED <<nodeVars, clientVars, connVars, accepted, runVars, hookVars>>
-----------------------------------------------------------------------------
(* The remote run (external: the engine publishes AgentPaused only) *)

\* An event reaches the handler if it is subscribed to its type, and the
\* dispatcher, which starts a goroutine.
Publish(ev) ==
    /\ running
    /\ Len(published) < MaxEvents
    /\ \A i \in DOMAIN published : published[i].type # "TaskCompleted"
    /\ published' = Append(published, ev)
    /\ IF ev.type \in subs
       THEN eventChan' = Append(eventChan, ev) /\ accepted' = Append(accepted, ev)
       ELSE UNCHANGED <<eventChan, accepted>>
    /\ job' = IF setting.hooks = {} THEN job
              ELSE [job EXCEPT ![Len(published) + 1].pc = "lookup"]
    /\ UNCHANGED <<nodeVars, clientVars, connVars, spc, subs, running, tenant, webhooks, fate>>

\* The events of a run: an artifact is named after its event.
RunEvents ==
    LET carried == [none |-> 0, artifact |-> Len(published) + 1, unnamed |-> Unnamed] IN
    [type : {"NodeCompleted"}, artifact : {carried[p] : p \in setting.payloads}, hasTask : {TRUE}]
    \cup [type : {"TaskCompleted"}, artifact : {0}, hasTask : {TRUE}]
    \cup [type : {"AgentPaused"}, artifact : {0}, hasTask : {FALSE}]

\* tasks/pushNotificationConfig/create
AddWebhook(h) ==
    /\ running
    /\ h \in setting.hooks \ ToSet(webhooks)
    /\ webhooks' = Append(webhooks, h)
    /\ UNCHANGED <<nodeVars, clientVars, connVars, serverVars, runVars, job, fate>>
-----------------------------------------------------------------------------
(* WebhookDispatcher.dispatch *)

Matches(h, ev) == Filter[h] = {} \/ ev.type \in Filter[h]

\* Of some webhooks those to be notified of an event, in their order.
Notifiable(hooks, ev) ==
    FlattenSeq([i \in DOMAIN hooks |-> IF Matches(hooks[i], ev) THEN <<hooks[i]>> ELSE <<>>])

\* The goroutine goes on with the webhooks that are left, or ends.
SendTo(i, hooks, saw) ==
    job' = [job EXCEPT ![i] = [pc |-> IF hooks = <<>> THEN "done" ELSE "send",
                               todo |-> hooks, tries |-> 0, saw |-> saw]]

\* The task is looked up for the default tenant, and of the webhooks it has
\* now those are to be notified whose filter lets the event pass.  Events
\* without a task, tasks that are not found and failed look-ups are passed over.
Lookup(i) ==
    /\ job[i].pc = "lookup"
    /\ \/ SendTo(i, <<>>, {})
       \/ /\ published[i].hasTask
          /\ tenant = Default
          /\ SendTo(i, Notifiable(webhooks, published[i]), ToSet(webhooks))
    /\ UNCHANGED <<nodeVars, clientVars, connVars, serverVars, runVars, webhooks, fate>>

\* sendWithRetry, when the receiver answers with a status below 400.
Notified(i) ==
    /\ job[i].pc = "send"
    /\ fate' = [fate EXCEPT ![i][Head(job[i].todo)] = "notified"]
    /\ SendTo(i, Tail(job[i].todo), job[i].saw)
    /\ UNCHANGED <<nodeVars, clientVars, connVars, serverVars, runVars, webhooks>>

\* Mutant: a webhook that is given up ends the dispatch.
NotifyFailsReturn(i) ==
    /\ job[i].pc = "send"
    /\ IF job[i].tries + 1 < 3
       THEN job' = [job EXCEPT ![i].tries = @ + 1] /\ UNCHANGED fate
       ELSE /\ fate' = [fate EXCEPT ![i][Head(job[i].todo)] = "tried"]
            /\ SendTo(i, <<>>, job[i].saw)
    /\ UNCHANGED <<nodeVars, clientVars, connVars, serverVars, runVars, webhooks>>

\* A send fails: after the third time the webhook is given up.
NotifyFails(i) ==
    /\ job[i].pc = "send"
    /\ IF job[i].tries + 1 < 3
       THEN job' = [job EXCEPT ![i].tries = @ + 1] /\ UNCHANGED fate
       ELSE /\ fate' = [fate EXCEPT ![i][Head(job[i].todo)] = "tried"]
            /\ SendTo(i, Tail(job[i].todo), job[i].saw)
    /\ UNCHANGED <<nodeVars, clientVars, connVars, serverVars, runVars, webhooks>>
-----------------------------------------------------------------------------
Process  == Discover \/ SendMessage \/ SendFails \/ StreamEvents \/ StreamFails
            \/ Consume \/ RangeEnds
Stream   == ReadLine \/ Put \/ PutCancelled \/ ReadFails
Serve    == Subscribe \/ ServeEvent \/ ServerGone
Dispatch(i) == Lookup(i) \/ Notified(i) \/ NotifyFails(i)

DelegationNext ==
    \/ Process \/ CancelRun \/ Stream \/ Cut \/ Serve \/ KeepAlive
    \/ \E ev \in RunEvents : Publish(ev)
    \/ \E h \in Hooks : AddWebhook(h)
    \/ \E i \in 1..MaxEvents : Dispatch(i)

DelegationSpec == DelegationInit /\ [][DelegationNext]_delegationVars

\* Goroutines that can go on do, requests end by their time-outs, and the 30
\* seconds of a stream pass.  Nothing is assumed of the remote run.
DelegationFairSpec ==
    /\ DelegationSpec
    /\ WF_delegationVars(Process) /\ WF_delegationVars(Stream)
    /\ WF_delegationVars(Serve) /\ WF_delegationVars(Cut)
    /\ \A i \in 1..MaxEvents : WF_delegationVars(Dispatch(i))
-----------------------------------------------------------------------------

Carried(ev) == IF ev.artifact \in 1..MaxEvents THEN <<ev.artifact>> ELSE <<>>

ArtifactIds(evs) == FlattenSeq([i \in DOMAIN evs |-> Carried(evs[i])])

\* What the node has collected is always a beginning of what the server's
\* subscription took in, in its order, whatever breaks in between; and a node
\* that streamed and ends over a connection that did not break has all of it,
\* which is the end of what the run published: only events from before the
\* subscription are missing (delegate_node.go:66-90, client.go:118-149).
StreamedArtifacts ==
    /\ IsPrefix(artifacts, ArtifactIds(accepted))
    /\ npc = "over" /\ spc # "none" /\ ~broken =>
          /\ artifacts = ArtifactIds(accepted)
          /\ IsSuffix(artifacts, ArtifactIds(published))
          /\ \E i \in DOMAIN published : published[i].type = "TaskCompleted"

\* A dispatch that is over has, of the webhooks the task had when it looked,
\* notified or tried three times exactly those whose filter lets the event
\* pass: a receiver that fails keeps no other one from its notification
\* (webhook.go:73-104).
DispatchComplete ==
    \A i \in 1..MaxEvents, h \in Hooks :
        job[i].pc = "done" =>
            (fate[i][h] # "none") = (h \in job[i].saw /\ Matches(h, published[i]))

\* Process ends whatever the remote run does, and with it the goroutine of
\* the stream and the server's handler, and every dispatch ends: nobody waits
\* for an event that was published too early or will never come
\* (client.go:27, 118-149, delegate_node.go:70-90, webhook.go:55-104).
DelegationEnds ==
    /\ <>[](/\ npc \in {"over", "panic"}
           /\ gpc \in {"none", "done"}
           /\ spc \in {"none", "gone"})
    /\ \A i \in 1..MaxEvents : job[i].pc = "lookup" ~> job[i].pc = "done"
=============================================================================
