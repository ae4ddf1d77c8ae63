---------------------------- MODULE EventStream -----------------------------
(***************************************************************************)
(* memory/eventbus.go together with handleTaskEvents of a2a/server.go.     *)
(* Publish copies the handlers of the event's type and calls them one by   *)
(* one in the publisher's goroutine.  The handler of an SSE connection     *)
(* sends events of its own task into a channel of fixed capacity, so a     *)
(* publisher waits while that channel is full.  The connection empties the *)
(* channel until its client is gone or the task has completed.             *)
(***************************************************************************)
EXTENDS Naturals, Sequences

CONSTANTS
    Publishers,     \* goroutines that publish; each works for one task
    Conns,          \* calls of handleTaskEvents
    NoConn,
    TaskOf,         \* TaskOf[x]: the task of publisher or connection x
    Types,          \* the event types a connection subscribes to, in order
    Completed,      \* EventTaskCompleted
    Cap,            \* capacity of eventChan
    MaxEvents       \* model bound: MaxEvents[p] events of publisher p

ASSUME StreamAssumption ==
    /\ NoConn \notin Conns
    /\ Types \in Seq(STRING)
    /\ Completed \in {Types[i] : i \in 1..Len(Types)}
    /\ Cap \in Nat /\ MaxEvents \in [Publishers -> Nat]

VARIABLES
    phase,      \* phase[c]: "new", "joining", "streaming", "leaving" or "gone"
    joined,     \* joined[c]: c is subscribed to the first joined[c] types
    hungUp,     \* connections whose request context is done
    eventChan,  \* eventChan[c]
    written,    \* written[c]: the events c has written to its client (history)
    count,      \* count[p]: events that p has published
    event,      \* event[p]: the event that p published last
    todo,       \* todo[p]: connections whose handlers p has yet to call
    calling,    \* calling[p]: the connection whose handler p is in, or NoConn
    owed        \* owed[c]: events of c's task published while c subscribed (history)

vars == <<phase, joined, hungUp, eventChan, written, count, event, todo,
          calling, owed>>

TypeNames == {Types[i] : i \in 1..Len(Types)}

\* Events are told apart by publisher and number.
Event == [from: Publishers, n: Nat, type: TypeNames]

Subscribers(type) == {c \in Conns : \E i \in 1..joined[c] : Types[i] = type}

Publishing(p) == todo[p] # {} \/ calling[p] # NoConn

Left(c) == phase[c] \in {"leaving", "gone"}

Init ==
    /\ phase = [c \in Conns |-> "new"]
    /\ joined = [c \in Conns |-> 0]
    /\ hungUp = {}
    /\ eventChan = [c \in Conns |-> <<>>]
    /\ written = [c \in Conns |-> {}]
    /\ count = [p \in Publishers |-> 0]
    /\ event = [p \in Publishers |->
                   [from |-> p, n |-> 0, type |-> Completed]]
    /\ todo = [p \in Publishers |-> {}]
    /\ calling = [p \in Publishers |-> NoConn]
    /\ owed = [c \in Conns |-> {}]
-----------------------------------------------------------------------------
(***************************************************************************)
(* The connection.                                                         *)
(***************************************************************************)

\* Subscribe to the next type; after the last one the streaming loop starts.
Subscribe(c) ==
    /\ phase[c] \in {"new", "joining"}
    /\ joined' = [joined EXCEPT ![c] = @ + 1]
    /\ phase' = [phase EXCEPT ![c] =
          IF joined[c] + 1 = Len(Types) THEN "streaming" ELSE "joining"]
    /\ UNCHANGED <<hungUp, eventChan, written, count, event, todo, calling, owed>>

\* case ev := <-eventChan: write it, and return after TaskCompleted.
Receive(c) ==
    /\ phase[c] = "streaming"
    /\ eventChan[c] # <<>>
    /\ LET ev == Head(eventChan[c]) IN
          /\ written' = [written EXCEPT ![c] = @ \cup {ev}]
          /\ phase' = [phase EXCEPT ![c] =
                IF ev.type = Completed THEN "leaving" ELSE @]
    /\ eventChan' = [eventChan EXCEPT ![c] = Tail(@)]
    /\ UNCHANGED <<joined, hungUp, count, event, todo, calling, owed>>

\* The client goes away.
HangUp(c) ==
    /\ phase[c] # "gone"
    /\ c \notin hungUp
    /\ hungUp' = hungUp \cup {c}
    /\ UNCHANGED <<phase, joined, eventChan, written, count, event, todo,
                   calling, owed>>

\* case <-r.Context().Done()
Leave(c) ==
    /\ phase[c] = "streaming"
    /\ c \in hungUp
    /\ phase' = [phase EXCEPT ![c] = "leaving"]
    /\ UNCHANGED <<joined, hungUp, eventChan, written, count, event, todo,
                   calling, owed>>

\* Mutant: only the last subscription is undone.
UnsubscribeOnce(c) ==
    /\ phase[c] = "leaving"
    /\ joined' = [joined EXCEPT ![c] = @ - 1]
    /\ phase' = [phase EXCEPT ![c] = "gone"]
    /\ UNCHANGED <<hungUp, eventChan, written, count, event, todo, calling, owed>>

\* The deferred calls, last subscription first.
Unsubscribe(c) ==
    /\ phase[c] = "leaving"
    /\ joined' = [joined EXCEPT ![c] = @ - 1]
    /\ phase' = [phase EXCEPT ![c] = IF joined[c] = 1 THEN "gone" ELSE @]
    /\ UNCHANGED <<hungUp, eventChan, written, count, event, todo, calling, owed>>
-----------------------------------------------------------------------------
(***************************************************************************)
(* The publisher.                                                          *)
(***************************************************************************)

\* Publish up to the copy of the handlers.
Publish(p, type) ==
    /\ ~Publishing(p)
    /\ count[p] < MaxEvents[p]
    /\ count' = [count EXCEPT ![p] = @ + 1]
    /\ event' = [event EXCEPT ![p] =
                    [from |-> p, n |-> count[p] + 1, type |-> type]]
    /\ todo' = [todo EXCEPT ![p] = Subscribers(type)]
    /\ owed' = [c \in Conns |->
          IF c \in Subscribers(type) /\ TaskOf[c] = TaskOf[p]
          THEN owed[c] \cup {event'[p]} ELSE owed[c]]
    /\ UNCHANGED <<phase, joined, hungUp, eventChan, written, calling>>

\* Mutant: a handler that was called is called again.
CallAgain(p, c) ==
    /\ calling[p] = NoConn
    /\ c \in todo[p]
    /\ calling' = [calling EXCEPT ![p] = c]
    /\ UNCHANGED <<phase, joined, hungUp, eventChan, written, count, event,
                   todo, owed>>

\* The range over the copied handlers, in any order.
Call(p, c) ==
    /\ calling[p] = NoConn
    /\ c \in todo[p]
    /\ calling' = [calling EXCEPT ![p] = c]
    /\ todo' = [todo EXCEPT ![p] = @ \ {c}]
    /\ UNCHANGED <<phase, joined, hungUp, eventChan, written, count, event, owed>>

\* Mutant: the handler does not look at the event's task.
ConcernsAny(p, c) == p = p /\ c = c

Concerns(p, c) == TaskOf[c] = TaskOf[p]

\* Mutant: the handler drops the event when the channel is full.
SendOrDrop(p, c) ==
    eventChan' = IF Len(eventChan[c]) < Cap
                 THEN [eventChan EXCEPT ![c] = Append(@, event[p])]
                 ELSE eventChan

\* eventChan <- ev waits for room.
Send(p, c) ==
    /\ Len(eventChan[c]) < Cap
    /\ eventChan' = [eventChan EXCEPT ![c] = Append(@, event[p])]

\* The handler: send what concerns the connection's task, ignore the rest.
Handle(p) ==
    /\ calling[p] # NoConn
    /\ \/ Concerns(p, calling[p]) /\ Send(p, calling[p])
       \/ ~Concerns(p, calling[p]) /\ UNCHANGED eventChan
    /\ calling' = [calling EXCEPT ![p] = NoConn]
    /\ UNCHANGED <<phase, joined, hungUp, written, count, event, todo, owed>>

Next ==
    \/ \E c \in Conns : \/ Subscribe(c) \/ Receive(c) \/ HangUp(c)
                        \/ Leave(c) \/ Unsubscribe(c)
    \/ \E p \in Publishers :
          \/ \E type \in TypeNames : Publish(p, type)
          \/ \E c \in Conns : Call(p, c)
          \/ Handle(p)

Spec == Init /\ [][Next]_vars

\* Every goroutine that can run does.  select picks at random among its ready
\* cases, so neither the channel nor Done is passed over for ever, and senders
\* waiting on a channel are served in turn.  Writing to a client is assumed to
\* return.  Nobody has to connect, hang up or publish.
Fairness ==
    /\ \A c \in Conns : /\ WF_vars(phase[c] = "joining" /\ Subscribe(c))
                        /\ WF_vars(Receive(c))
                        /\ WF_vars(Leave(c))
                        /\ WF_vars(Unsubscribe(c))
    /\ \A p \in Publishers : /\ WF_vars(\E c \in Conns : Call(p, c))
                             /\ SF_vars(Handle(p))

FairSpec == Spec /\ Fairness
-----------------------------------------------------------------------------
(***************************************************************************)
(* Properties.                                                             *)
(***************************************************************************)
\* The shape of the state; the proofs use it.
TypeOK ==
    /\ phase \in [Conns -> {"new", "joining", "streaming", "leaving", "gone"}]
    /\ joined \in [Conns -> 0..Len(Types)]
    /\ hungUp \subseteq Conns
    /\ eventChan \in [Conns -> Seq(Event)]
    /\ written \in [Conns -> SUBSET Event]
    /\ count \in [Publishers -> Nat]
    /\ event \in [Publishers -> Event]
    /\ todo \in [Publishers -> SUBSET Conns]
    /\ calling \in [Publishers -> Conns \cup {NoConn}]
    /\ owed \in [Conns -> SUBSET Event]

\* A connection listens to all its types while it streams, and leaves no handler
\* on the bus when it is gone, whichever way it ended (server.go:330-337).
SubscribedWhileStreaming ==
    \A c \in Conns :
        /\ phase[c] = "streaming" => joined[c] = Len(Types)
        /\ phase[c] \in {"new", "gone"} => joined[c] = 0

Elements(seq) == {seq[i] : i \in 1..Len(seq)}

IsPending(p, c) == c \in todo[p] \/ calling[p] = c

\* Events that publishers are still to hand to c.
Pending(c) ==
    {event[p] : p \in {q \in Publishers : /\ Concerns(q, c)
                                          /\ IsPending(q, c)}}

\* Between the copy of the handlers and the client no event is lost, none is
\* delivered to the connection of another task, and the channel keeps to its
\* capacity, though the connection subscribes and unsubscribes in between.
NothingDropped ==
    \A c \in Conns :
        /\ Len(eventChan[c]) <= Cap
        /\ owed[c] = written[c] \cup Elements(eventChan[c]) \cup Pending(c)

\* A client sees the events of one publisher in the order of their publication,
\* and none of them twice.
InOrder ==
    \A c \in Conns : \A j \in 1..Len(eventChan[c]) :
        LET ev == eventChan[c][j] IN
        \A old \in written[c] \cup {eventChan[c][i] : i \in 1 .. j - 1} :
            old.from = ev.from => old.n < ev.n

\* Only a watcher of the publisher's own task that has left holds Publish up for
\* good: slow or broken connections of other tasks do not.
OnlyOwnLeaverBlocks ==
    \A p \in Publishers :
        Publishing(p) ~>
            \/ ~Publishing(p)
            \/ \E c \in Conns : TaskOf[c] = TaskOf[p] /\ Left(c)
-----------------------------------------------------------------------------
(***************************************************************************)
(* Inductive strengthenings that the proofs in EventStreamProofs rest on.  *)
(***************************************************************************)
PhaseInv ==
    /\ SubscribedWhileStreaming
    /\ \A c \in Conns :
          /\ phase[c] = "joining" => joined[c] < Len(Types)
          /\ phase[c] = "leaving" => joined[c] > 0

Delivered(c) == written[c] \cup Elements(eventChan[c])

\* Numbers grow with publication, and an event still pending for c is newer
\* than all of its publisher's events that c has got.
Numbered ==
    /\ \A p \in Publishers :
          /\ event[p].from = p /\ event[p].n = count[p]
          /\ calling[p] \notin todo[p]
    /\ \A c \in Conns : \A ev \in Delivered(c) :
          /\ ev.n <= count[ev.from]
          /\ IsPending(ev.from, c) => ev.n < count[ev.from]
=============================================================================
