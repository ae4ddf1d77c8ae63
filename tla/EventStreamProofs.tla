------------------------- MODULE EventStreamProofs --------------------------
(***************************************************************************)
(* For every number of publishers and connections and every capacity: the  *)
(* way from Publish to the client loses nothing and keeps the order.       *)
(***************************************************************************)
EXTENDS EventStream, TLAPS

USE StreamAssumption

\* Taking the head off a channel.
LEMMA TailFacts ==
    ASSUME NEW S, NEW seq \in Seq(S), seq # <<>>
    PROVE  /\ Head(seq) \in S /\ Tail(seq) \in Seq(S)
           /\ Len(seq) \in Nat /\ Len(seq) > 0
           /\ Head(seq) = seq[1]
           /\ Len(Tail(seq)) = Len(seq) - 1
           /\ \A k \in 1 .. Len(seq) - 1 : Tail(seq)[k] = seq[k + 1]
           /\ Elements(seq) = {Head(seq)} \cup Elements(Tail(seq))
<1>1. /\ Head(seq) \in S /\ Tail(seq) \in Seq(S)
      /\ Len(seq) \in Nat /\ Len(seq) > 0
      /\ Head(seq) = seq[1]
      /\ Len(Tail(seq)) = Len(seq) - 1
      /\ \A k \in 1 .. Len(seq) - 1 : Tail(seq)[k] = seq[k + 1]
  OBVIOUS
<1> DEFINE rest == Tail(seq)
<1> HIDE DEF rest
<1>2. \A x \in Elements(seq) : x \in {seq[1]} \cup Elements(rest)
  <2> SUFFICES ASSUME NEW k \in 1..Len(seq), k # 1
               PROVE  seq[k] \in Elements(rest)
    BY DEF Elements
  <2>1. k - 1 \in 1..Len(rest) /\ rest[k - 1] = seq[(k - 1) + 1]
    BY <1>1 DEF rest
  <2>2. (k - 1) + 1 = k
    BY <1>1
  <2> QED BY <2>1, <2>2 DEF Elements
<1>3. \A x \in Elements(rest) : x \in Elements(seq)
  <2> SUFFICES ASSUME NEW k \in 1..Len(rest) PROVE rest[k] \in Elements(seq)
    BY DEF Elements
  <2>1. k + 1 \in 1..Len(seq) /\ rest[k] = seq[k + 1]
    BY <1>1 DEF rest
  <2> QED BY <2>1 DEF Elements
<1>4. seq[1] \in Elements(seq)
  BY <1>1 DEF Elements
<1>5. Elements(seq) = {Head(seq)} \cup Elements(rest)
  BY <1>1, <1>2, <1>3, <1>4
<1> QED BY <1>1, <1>5 DEF rest

\* Putting an event at the end of a channel.
LEMMA AppendFacts ==
    ASSUME NEW S, NEW seq \in Seq(S), NEW x \in S
    PROVE  /\ Append(seq, x) \in Seq(S)
           /\ Len(seq) \in Nat
           /\ Len(Append(seq, x)) = Len(seq) + 1
           /\ \A k \in 1..Len(seq) : Append(seq, x)[k] = seq[k]
           /\ Append(seq, x)[Len(seq) + 1] = x
           /\ Elements(Append(seq, x)) = Elements(seq) \cup {x}
<1> DEFINE new == Append(seq, x)
<1>1. /\ new \in Seq(S)
      /\ Len(seq) \in Nat
      /\ Len(new) = Len(seq) + 1
      /\ \A k \in 1..Len(seq) : new[k] = seq[k]
      /\ new[Len(seq) + 1] = x
  OBVIOUS
<1> HIDE DEF new
<1>2. Elements(new) = Elements(seq) \cup {x}
  BY <1>1 DEF Elements
<1> QED BY <1>1, <1>2 DEF new
-----------------------------------------------------------------------------
\* The state keeps its shape and each phase its subscriptions: the three
\* Subscribe calls and the deferred Unsubscribe calls match (server.go:330-337).
StreamInv == TypeOK /\ PhaseInv

\* The shape of the state and the phases of connections, step by step.
LEMMA StreamInvInductive == Spec => []StreamInv
<1> USE DEF TypeOK, PhaseInv, SubscribedWhileStreaming
<1>0. Len(Types) \in Nat /\ Len(Types) > 0 /\ Completed \in TypeNames
  BY DEF TypeNames
<1>1. Init => StreamInv
  <2> SUFFICES ASSUME Init PROVE StreamInv
    OBVIOUS
  <2>1. event \in [Publishers -> Event]
    BY <1>0 DEF Init, Event
  <2> QED BY <1>0, <2>1 DEF Init, StreamInv
<1>2. StreamInv /\ [Next]_vars => StreamInv'
  <2> SUFFICES ASSUME StreamInv, [Next]_vars PROVE StreamInv'
    OBVIOUS
  <2> USE DEF StreamInv
  <2>1. ASSUME NEW c \in Conns, Subscribe(c) PROVE StreamInv'
    BY <1>0, <2>1 DEF Subscribe
  <2>2. ASSUME NEW c \in Conns, Receive(c) PROVE StreamInv'
    <3>1. Head(eventChan[c]) \in Event /\ Tail(eventChan[c]) \in Seq(Event)
      BY <2>2, TailFacts DEF Receive
    <3>2. /\ eventChan' \in [Conns -> Seq(Event)]
          /\ written' \in [Conns -> SUBSET Event]
      BY <2>2, <3>1 DEF Receive
    <3>3. /\ phase' \in [Conns -> {"new", "joining", "streaming", "leaving", "gone"}]
          /\ \A d \in Conns : \/ phase'[d] = phase[d]
                              \/ phase[d] = "streaming" /\ phase'[d] = "leaving"
      BY <2>2 DEF Receive
    <3>4. UNCHANGED <<joined, hungUp, count, event, todo, calling, owed>>
      BY <2>2 DEF Receive
    <3> QED BY <1>0, <3>2, <3>3, <3>4
  <2>3. ASSUME NEW c \in Conns, HangUp(c) PROVE StreamInv'
    BY <2>3 DEF HangUp
  <2>4. ASSUME NEW c \in Conns, Leave(c) PROVE StreamInv'
    BY <1>0, <2>4 DEF Leave
  <2>5. ASSUME NEW c \in Conns, Unsubscribe(c) PROVE StreamInv'
    BY <1>0, <2>5 DEF Unsubscribe
  <2>6. ASSUME NEW p \in Publishers, NEW type \in TypeNames, Publish(p, type)
        PROVE  StreamInv'
    <3>1. /\ event' \in [Publishers -> Event]
          /\ count' \in [Publishers -> Nat]
      BY <2>6 DEF Publish, Event
    <3>2. event'[p] \in Event
      BY <3>1
    <3>3. owed' \in [Conns -> SUBSET Event]
      BY <2>6, <3>2 DEF Publish
    <3>4. todo' \in [Publishers -> SUBSET Conns]
      BY <2>6 DEF Publish, Subscribers
    <3> QED BY <2>6, <3>1, <3>3, <3>4 DEF Publish
  <2>7. ASSUME NEW p \in Publishers, NEW c \in Conns, Call(p, c)
        PROVE  StreamInv'
    BY <2>7 DEF Call
  <2>8. ASSUME NEW p \in Publishers, Handle(p) PROVE StreamInv'
    <3>1. calling[p] \in Conns
      BY <2>8 DEF Handle
    <3>2. Append(eventChan[calling[p]], event[p]) \in Seq(Event)
      BY <3>1, AppendFacts
    <3>3. eventChan' \in [Conns -> Seq(Event)]
      BY <2>8, <3>2 DEF Handle, Send
    <3> QED BY <2>8, <3>3 DEF Handle
  <2>9. CASE UNCHANGED vars
    BY <2>9 DEF vars
  <2> QED BY <2>1, <2>2, <2>3, <2>4, <2>5, <2>6, <2>7, <2>8, <2>9 DEF Next
<1> QED BY <1>1, <1>2, PTL DEF Spec

\* No handler is left on the bus by a connection that is gone, and a streaming
\* one misses no type.
THEOREM NoLeakedSubscription == Spec => []SubscribedWhileStreaming
  BY StreamInvInductive, PTL DEF StreamInv, PhaseInv
-----------------------------------------------------------------------------
\* What a connection receives it had in its channel: the events delivered to it
\* stay the same (server.go:350-359).
LEMMA ReceiveDelivered ==
    ASSUME TypeOK, NEW c \in Conns, Receive(c)
    PROVE  \A d \in Conns : Delivered(d)' = Delivered(d)
<1> SUFFICES ASSUME NEW d \in Conns PROVE Delivered(d)' = Delivered(d)
  OBVIOUS
<1>1. CASE d = c
  <2>1. /\ written'[c] = written[c] \cup {Head(eventChan[c])}
        /\ eventChan'[c] = Tail(eventChan[c])
    BY DEF TypeOK, Receive
  <2>2. eventChan[c] \in Seq(Event) /\ eventChan[c] # <<>>
    BY DEF TypeOK, Receive
  <2>3. Elements(eventChan[c]) = {Head(eventChan[c])} \cup Elements(Tail(eventChan[c]))
    BY <2>2, TailFacts
  <2>4. Delivered(c)' = written'[c] \cup Elements(eventChan'[c])
    BY DEF Delivered, Elements
  <2> QED BY <1>1, <2>1, <2>3, <2>4 DEF Delivered
<1>2. CASE d # c
  <2>1. written'[d] = written[d] /\ eventChan'[d] = eventChan[d]
    BY <1>2 DEF TypeOK, Receive
  <2> QED BY <2>1 DEF Delivered, Elements
<1> QED BY <1>1, <1>2

\* A handler call delivers its event to the connection it was called for, if
\* that watches the task, and to no other (server.go:322-327).
LEMMA HandleDelivered ==
    ASSUME TypeOK, NEW p \in Publishers, Handle(p)
    PROVE  \A d \in Conns :
              Delivered(d)' = IF d = calling[p] /\ Concerns(p, d)
                              THEN Delivered(d) \cup {event[p]} ELSE Delivered(d)
<1> SUFFICES ASSUME NEW d \in Conns
             PROVE  Delivered(d)' = IF d = calling[p] /\ Concerns(p, d)
                                    THEN Delivered(d) \cup {event[p]}
                                    ELSE Delivered(d)
  OBVIOUS
<1>1. written' = written
  BY DEF Handle
<1>2. CASE d = calling[p] /\ Concerns(p, d)
  <2>1. eventChan'[d] = Append(eventChan[d], event[p])
    BY <1>2 DEF TypeOK, Handle, Send
  <2>2. Elements(Append(eventChan[d], event[p])) = Elements(eventChan[d]) \cup {event[p]}
    BY AppendFacts DEF TypeOK
  <2> QED BY <1>1, <1>2, <2>1, <2>2 DEF Delivered, Elements
<1>3. CASE ~(d = calling[p] /\ Concerns(p, d))
  <2>1. eventChan'[d] = eventChan[d]
    BY <1>3 DEF TypeOK, Handle, Send
  <2> QED BY <1>1, <1>3, <2>1 DEF Delivered, Elements
<1> QED BY <1>2, <1>3

\* Nothing else delivers anything.
LEMMA OthersDeliverNothing ==
    ASSUME UNCHANGED <<written, eventChan>>
    PROVE  \A d \in Conns : Delivered(d)' = Delivered(d)
BY DEF Delivered, Elements

\* The channel keeps to its capacity, and an event that was published for a
\* connection is delivered or pending (eventbus.go:22-46).
LEMMA DroppedInductive ==
    ASSUME StreamInv, NothingDropped, [Next]_vars
    PROVE  NothingDropped'
<1> USE DEF StreamInv
<1> SUFFICES ASSUME NEW c \in Conns
             PROVE  /\ Len(eventChan'[c]) <= Cap
                    /\ owed'[c] = Delivered(c)' \cup Pending(c)'
  BY DEF NothingDropped, Delivered
<1>0. Len(eventChan[c]) <= Cap /\ owed[c] = Delivered(c) \cup Pending(c)
  BY DEF NothingDropped, Delivered
<1>1. ASSUME NEW d \in Conns, Receive(d)
      PROVE  Len(eventChan'[c]) <= Cap /\ owed'[c] = Delivered(c)' \cup Pending(c)'
  <2>1. Delivered(c)' = Delivered(c)
    BY <1>1, ReceiveDelivered
  <2>2. Pending(c)' = Pending(c) /\ owed' = owed
    BY <1>1 DEF Receive, Pending, IsPending, Concerns
  <2>3. eventChan'[c] = eventChan[c] \/ (c = d /\ eventChan'[c] = Tail(eventChan[c]))
    BY <1>1 DEF TypeOK, Receive
  <2>4. eventChan[d] \in Seq(Event) /\ eventChan[d] # <<>>
    BY <1>1 DEF TypeOK, Receive
  <2>5. Len(Tail(eventChan[d])) = Len(eventChan[d]) - 1 /\ Len(eventChan[d]) \in Nat
    BY <2>4, TailFacts
  <2>6. Len(eventChan'[c]) <= Cap
    <3>1. CASE eventChan'[c] = eventChan[c]
      BY <1>0, <3>1
    <3>2. CASE c = d /\ eventChan'[c] = Tail(eventChan[c])
      <4>1. Len(eventChan'[c]) = Len(eventChan[c]) - 1 /\ Len(eventChan[c]) \in Nat
        BY <2>5, <3>2
      <4> QED BY <1>0, <4>1
    <3> QED BY <2>3, <3>1, <3>2
  <2> QED BY <1>0, <2>1, <2>2, <2>6
<1>2. ASSUME NEW p \in Publishers, NEW type \in TypeNames, Publish(p, type)
      PROVE  Len(eventChan'[c]) <= Cap /\ owed'[c] = Delivered(c)' \cup Pending(c)'
  <2>1. Delivered(c)' = Delivered(c) /\ eventChan' = eventChan
    BY <1>2, OthersDeliverNothing DEF Publish
  <2>2. /\ \A q \in Publishers : q # p => event'[q] = event[q] /\ todo'[q] = todo[q]
        /\ calling' = calling
        /\ todo'[p] = Subscribers(type)
        /\ todo[p] = {} /\ calling[p] = NoConn
    BY <1>2 DEF TypeOK, Publish, Publishing
  <2>3. ~IsPending(p, c)
    BY <2>2 DEF IsPending
  <2>4. \A q \in Publishers : q # p => (IsPending(q, c)' <=> IsPending(q, c))
    BY <2>2 DEF IsPending
  <2>5. IsPending(p, c)' <=> c \in Subscribers(type)
    BY <2>2 DEF IsPending
  <2>6. Pending(c)' = IF c \in Subscribers(type) /\ Concerns(p, c)
                      THEN Pending(c) \cup {event'[p]} ELSE Pending(c)
    BY <2>2, <2>3, <2>4, <2>5 DEF Pending, Concerns
  <2>7. owed'[c] = IF c \in Subscribers(type) /\ Concerns(p, c)
                   THEN owed[c] \cup {event'[p]} ELSE owed[c]
    BY <1>2 DEF Publish, Concerns
  <2> QED BY <1>0, <2>1, <2>6, <2>7
<1>3. ASSUME NEW p \in Publishers, NEW d \in Conns, Call(p, d)
      PROVE  Len(eventChan'[c]) <= Cap /\ owed'[c] = Delivered(c)' \cup Pending(c)'
  <2>1. Delivered(c)' = Delivered(c) /\ eventChan' = eventChan /\ owed' = owed
    BY <1>3, OthersDeliverNothing DEF Call
  <2>2. \A q \in Publishers : IsPending(q, c)' <=> IsPending(q, c)
    BY <1>3 DEF TypeOK, Call, IsPending
  <2>3. Pending(c)' = Pending(c)
    BY <1>3, <2>2 DEF Pending, Concerns, Call
  <2> QED BY <1>0, <2>1, <2>3
<1>4. ASSUME NEW p \in Publishers, Handle(p)
      PROVE  Len(eventChan'[c]) <= Cap /\ owed'[c] = Delivered(c)' \cup Pending(c)'
  <2>1. Delivered(c)' = IF c = calling[p] /\ Concerns(p, c)
                        THEN Delivered(c) \cup {event[p]} ELSE Delivered(c)
    BY <1>4, HandleDelivered
  <2>2. /\ event' = event /\ owed' = owed /\ todo' = todo
        /\ calling[p] # NoConn /\ calling'[p] = NoConn
        /\ \A q \in Publishers : q # p => calling'[q] = calling[q]
    BY <1>4 DEF TypeOK, Handle
  <2>3. \A q \in Publishers : q # p => (IsPending(q, c)' <=> IsPending(q, c))
    BY <2>2 DEF IsPending
  <2>4. IsPending(p, c)' => IsPending(p, c)
    BY <2>2 DEF IsPending
  <2>5. IsPending(p, c) /\ ~IsPending(p, c)' => c = calling[p]
    BY <2>2 DEF IsPending
  <2>6. Pending(c)' \subseteq Pending(c)
    BY <2>2, <2>3, <2>4 DEF Pending, Concerns
  <2>7. \A ev \in Pending(c) :
           ev \in Pending(c)' \/ (ev = event[p] /\ c = calling[p] /\ Concerns(p, c))
    BY <2>2, <2>3, <2>5 DEF Pending, Concerns
  <2>8. c = calling[p] /\ Concerns(p, c) => event[p] \in Pending(c)
    BY DEF Pending, IsPending
  <2>9. owed'[c] = Delivered(c)' \cup Pending(c)'
    BY <1>0, <2>1, <2>2, <2>6, <2>7, <2>8
  <2>10. Len(eventChan'[c]) <= Cap
    <3>1. CASE c = calling[p] /\ Concerns(p, c)
      <4>1. /\ Len(eventChan[c]) < Cap
            /\ eventChan'[c] = Append(eventChan[c], event[p])
        BY <1>4, <3>1 DEF TypeOK, Handle, Send
      <4>2. /\ Len(Append(eventChan[c], event[p])) = Len(eventChan[c]) + 1
            /\ Len(eventChan[c]) \in Nat
        BY AppendFacts DEF TypeOK
      <4> QED BY <4>1, <4>2
    <3>2. CASE ~(c = calling[p] /\ Concerns(p, c))
      <4>1. eventChan'[c] = eventChan[c]
        BY <1>4, <3>2 DEF TypeOK, Handle, Send
      <4> QED BY <1>0, <4>1
    <3> QED BY <3>1, <3>2
  <2> QED BY <2>9, <2>10
<1>5. ASSUME UNCHANGED <<eventChan, written, event, todo, calling, owed>>
      PROVE  Len(eventChan'[c]) <= Cap /\ owed'[c] = Delivered(c)' \cup Pending(c)'
  <2>1. Delivered(c)' = Delivered(c)
    BY <1>5, OthersDeliverNothing
  <2>2. Pending(c)' = Pending(c)
    BY <1>5 DEF Pending, IsPending, Concerns
  <2> QED BY <1>0, <1>5, <2>1, <2>2
<1>6. ASSUME NEW d \in Conns, Subscribe(d) \/ HangUp(d) \/ Leave(d) \/ Unsubscribe(d)
      PROVE  UNCHANGED <<eventChan, written, event, todo, calling, owed>>
  BY <1>6 DEF Subscribe, HangUp, Leave, Unsubscribe
<1>7. UNCHANGED vars => UNCHANGED <<eventChan, written, event, todo, calling, owed>>
  BY DEF vars
<1> QED BY <1>1, <1>2, <1>3, <1>4, <1>5, <1>6, <1>7 DEF Next

\* Every event published for a subscribed connection is delivered to it or still
\* on its way, and nothing else is (eventbus.go:22-46, server.go:322-327).
THEOREM NoEventLost == Spec => []NothingDropped
<1>1. Init => NothingDropped
  <2> SUFFICES ASSUME Init, NEW c \in Conns
               PROVE  /\ Len(eventChan[c]) <= Cap
                      /\ owed[c] = written[c] \cup Elements(eventChan[c]) \cup Pending(c)
    BY DEF NothingDropped
  <2>1. eventChan[c] = <<>> /\ Len(eventChan[c]) = 0
    BY DEF Init
  <2>2. Elements(eventChan[c]) = {}
    BY <2>1 DEF Elements
  <2>3. Pending(c) = {}
    BY DEF Init, Pending, IsPending
  <2> QED BY <2>1, <2>2, <2>3 DEF Init
<1> QED BY <1>1, DroppedInductive, StreamInvInductive, PTL DEF Spec
-----------------------------------------------------------------------------
\* Events carry the number of their publication, and one that is pending for a
\* connection is newer than those it was delivered (eventbus.go:42-44: the
\* handlers are called before Publish returns).
LEMMA NumberedInductive ==
    ASSUME StreamInv, Numbered, [Next]_vars
    PROVE  Numbered'
<1> USE DEF StreamInv
<1> DEFINE Own(p) == event[p].from = p /\ event[p].n = count[p] /\ calling[p] \notin todo[p]
           Older(c, ev) == /\ ev.n <= count[ev.from]
                           /\ IsPending(ev.from, c) => ev.n < count[ev.from]
<1>0. \A c \in Conns : Delivered(c) \subseteq Event
  BY DEF TypeOK, Delivered, Elements
<1>1. ASSUME NEW p \in Publishers, NEW type \in TypeNames, Publish(p, type)
      PROVE  Numbered'
  <2>1. /\ todo[p] = {} /\ calling' = calling /\ calling[p] = NoConn
        /\ count' = [count EXCEPT ![p] = count[p] + 1]
        /\ todo' = [todo EXCEPT ![p] = Subscribers(type)]
        /\ event'[p].from = p /\ event'[p].n = count[p] + 1
        /\ \A q \in Publishers : q # p => event'[q] = event[q]
    BY <1>1 DEF TypeOK, Publish, Publishing
  <2>2. NoConn \notin Subscribers(type)
    BY DEF Subscribers
  <2>3. ASSUME NEW q \in Publishers PROVE Own(q)'
    <3>1. CASE q = p
      BY <2>1, <2>2, <3>1 DEF TypeOK
    <3>2. CASE q # p
      <4>1. Own(q)
        BY DEF Numbered
      <4> QED BY <2>1, <3>2, <4>1 DEF TypeOK
    <3> QED BY <3>1, <3>2
  <2>4. ASSUME NEW c \in Conns, NEW ev \in Delivered(c) PROVE Older(c, ev)'
    <3>1. ev.from \in Publishers /\ ev.n \in Nat /\ Older(c, ev)
      BY <1>0 DEF Event, Numbered
    <3>2. CASE ev.from = p
      BY <2>1, <3>1, <3>2 DEF TypeOK
    <3>3. CASE ev.from # p
      BY <2>1, <3>1, <3>3 DEF TypeOK, IsPending
    <3> QED BY <3>2, <3>3
  <2>5. \A c \in Conns : Delivered(c)' = Delivered(c)
    BY <1>1, OthersDeliverNothing DEF Publish
  <2> QED BY <2>3, <2>4, <2>5 DEF Numbered
<1>2. ASSUME NEW p \in Publishers, NEW d \in Conns, Call(p, d)
      PROVE  Numbered'
  <2>1. /\ event' = event /\ count' = count /\ calling[p] = NoConn /\ d \in todo[p]
        /\ todo' = [todo EXCEPT ![p] = todo[p] \ {d}]
        /\ calling' = [calling EXCEPT ![p] = d]
    BY <1>2 DEF Call
  <2>2. \A c \in Conns : Delivered(c)' = Delivered(c)
    BY <1>2, OthersDeliverNothing DEF Call
  <2>3. \A q \in Publishers, c \in Conns : IsPending(q, c)' <=> IsPending(q, c)
    BY <2>1 DEF TypeOK, IsPending
  <2>4. \A c \in Conns : \A ev \in Delivered(c) : ev.from \in Publishers
    BY <1>0 DEF Event
  <2>5. \A q \in Publishers : Own(q)'
    BY <2>1 DEF TypeOK, Numbered
  <2>6. ASSUME NEW c \in Conns, NEW ev \in Delivered(c) PROVE Older(c, ev)'
    BY <2>1, <2>3, <2>4 DEF Numbered
  <2> QED BY <2>2, <2>5, <2>6 DEF Numbered
<1>3. ASSUME NEW p \in Publishers, Handle(p) PROVE Numbered'
  <2>1. /\ event' = event /\ count' = count /\ todo' = todo
        /\ calling[p] \in Conns
        /\ calling' = [calling EXCEPT ![p] = NoConn]
    BY <1>3 DEF TypeOK, Handle
  <2>2. \A q \in Publishers : NoConn \notin todo[q]
    BY DEF TypeOK
  <2>3. \A q \in Publishers : Own(q)'
    BY <2>1, <2>2 DEF TypeOK, Numbered
  <2>4. \A q \in Publishers, c \in Conns : IsPending(q, c)' => IsPending(q, c)
    BY <2>1 DEF TypeOK, IsPending
  <2>5. ASSUME NEW c \in Conns, NEW ev \in Delivered(c)' PROVE Older(c, ev)'
    <3>1. CASE ev \in Delivered(c)
      <4>1. ev.from \in Publishers /\ Older(c, ev)
        BY <1>0, <3>1 DEF Event, Numbered
      <4> QED BY <2>1, <2>4, <4>1
    <3>2. CASE ev \notin Delivered(c)
      <4>1. c = calling[p] /\ ev = event[p]
        BY <1>3, <3>2, <2>5, HandleDelivered
      <4>2. ev.from = p /\ ev.n = count[p] /\ c \notin todo[p]
        BY <4>1 DEF Numbered
      <4>3. ~IsPending(p, c)'
        BY <2>1, <4>2 DEF TypeOK, IsPending
      <4>4. count[p] \in Nat
        BY DEF TypeOK
      <4> QED BY <2>1, <4>2, <4>3, <4>4
    <3> QED BY <3>1, <3>2
  <2> QED BY <2>3, <2>5 DEF Numbered
<1>4. ASSUME UNCHANGED <<count, event, todo, calling>>,
             \A c \in Conns : Delivered(c)' = Delivered(c)
      PROVE  Numbered'
  BY <1>4 DEF Numbered, IsPending
<1>5. ASSUME NEW d \in Conns, Receive(d) PROVE Numbered'
  <2>1. UNCHANGED <<count, event, todo, calling>>
    BY <1>5 DEF Receive
  <2> QED BY <1>4, <1>5, <2>1, ReceiveDelivered
<1>6. ASSUME NEW d \in Conns, Subscribe(d) \/ HangUp(d) \/ Leave(d) \/ Unsubscribe(d)
      PROVE  Numbered'
  <2>1. UNCHANGED <<count, event, todo, calling, written, eventChan>>
    BY <1>6 DEF Subscribe, HangUp, Leave, Unsubscribe
  <2> QED BY <1>4, <2>1, OthersDeliverNothing
<1>7. CASE UNCHANGED vars
  <2>1. UNCHANGED <<count, event, todo, calling, written, eventChan>>
    BY <1>7 DEF vars
  <2> QED BY <1>4, <2>1, OthersDeliverNothing
<1> QED BY <1>1, <1>2, <1>3, <1>5, <1>6, <1>7 DEF Next

\* Everything in front of position j of c's channel.
Before(c, j) == written[c] \cup {eventChan[c][i] : i \in 1 .. j - 1}

\* What reaches a channel goes behind all older events of its publisher.
LEMMA InOrderInductive ==
    ASSUME StreamInv, Numbered, InOrder, [Next]_vars
    PROVE  InOrder'
<1> USE DEF StreamInv
<1> DEFINE Ordered(c, j) ==
        \A old \in Before(c, j) :
            old.from = eventChan[c][j].from => old.n < eventChan[c][j].n
<1>0. \A c \in Conns : \A j \in 1..Len(eventChan[c]) : Ordered(c, j)
  BY DEF InOrder, Before
<1>1. ASSUME NEW d \in Conns, Receive(d),
             NEW c \in Conns, NEW j \in 1..Len(eventChan'[c])
      PROVE  Ordered(c, j)'
  <2>1. CASE c # d
    <3>1. eventChan'[c] = eventChan[c] /\ written'[c] = written[c]
      BY <1>1, <2>1 DEF TypeOK, Receive
    <3> QED BY <1>0, <1>1, <3>1 DEF Before
  <2>2. CASE c = d
    <3>1. /\ eventChan[c] \in Seq(Event) /\ eventChan[c] # <<>>
          /\ eventChan'[c] = Tail(eventChan[c])
          /\ written'[c] = written[c] \cup {Head(eventChan[c])}
      BY <1>1, <2>2 DEF TypeOK, Receive
    <3>2. /\ Len(eventChan[c]) \in Nat
          /\ Head(eventChan[c]) = eventChan[c][1]
          /\ Len(eventChan'[c]) = Len(eventChan[c]) - 1
          /\ \A k \in 1 .. Len(eventChan[c]) - 1 : eventChan'[c][k] = eventChan[c][k + 1]
      BY <3>1, TailFacts
    <3>3. /\ j + 1 \in 1..Len(eventChan[c])
          /\ eventChan'[c][j] = eventChan[c][j + 1]
      BY <1>1, <3>2
    <3>4. ASSUME NEW old \in Before(c, j)' PROVE old \in Before(c, j + 1)
      <4>1. CASE old \in written[c]
        BY <4>1 DEF Before
      <4>2. CASE old = eventChan[c][1]
        <5>1. 1 \in 1 .. (j + 1) - 1
          BY <1>1, <3>2
        <5> QED BY <4>2, <5>1 DEF Before
      <4>3. ASSUME NEW i \in 1 .. j - 1, old = eventChan'[c][i]
            PROVE  old \in Before(c, j + 1)
        <5>1. i + 1 \in 1 .. (j + 1) - 1 /\ old = eventChan[c][i + 1]
          BY <1>1, <3>2, <4>3
        <5> QED BY <5>1 DEF Before
      <4> QED BY <3>1, <3>2, <3>4, <4>1, <4>2, <4>3 DEF Before
    <3>5. Ordered(c, j + 1)
      BY <1>0, <3>3
    <3> QED BY <3>3, <3>4, <3>5
  <2> QED BY <2>1, <2>2
<1>2. ASSUME NEW p \in Publishers, Handle(p),
             NEW c \in Conns, NEW j \in 1..Len(eventChan'[c])
      PROVE  Ordered(c, j)'
  <2>1. written' = written
    BY <1>2 DEF Handle
  <2>2. CASE ~(c = calling[p] /\ Concerns(p, c))
    <3>1. eventChan'[c] = eventChan[c]
      BY <1>2, <2>2 DEF TypeOK, Handle, Send
    <3> QED BY <1>0, <1>2, <2>1, <3>1 DEF Before
  <2>3. CASE c = calling[p] /\ Concerns(p, c)
    <3>1. eventChan'[c] = Append(eventChan[c], event[p])
      BY <1>2, <2>3 DEF TypeOK, Handle, Send
    <3>2. /\ Len(eventChan[c]) \in Nat
          /\ Len(eventChan'[c]) = Len(eventChan[c]) + 1
          /\ \A k \in 1..Len(eventChan[c]) : eventChan'[c][k] = eventChan[c][k]
          /\ eventChan'[c][Len(eventChan[c]) + 1] = event[p]
      BY <3>1, AppendFacts DEF TypeOK
    <3>3. \A i \in 1 .. j - 1 : i \in 1..Len(eventChan[c])
      BY <1>2, <3>2
    <3>4. Before(c, j)' = Before(c, j)
      BY <2>1, <3>2, <3>3 DEF Before
    <3>5. CASE j <= Len(eventChan[c])
      BY <1>0, <1>2, <3>2, <3>4, <3>5
    <3>6. CASE j = Len(eventChan[c]) + 1
      <4>1. Before(c, j) \subseteq Delivered(c)
        BY <3>3 DEF Before, Delivered, Elements
      <4>2. IsPending(p, c) /\ event[p].from = p /\ event[p].n = count[p]
        BY <2>3 DEF IsPending, Numbered
      <4>3. \A old \in Before(c, j) : old.from = p => old.n < count[p]
        BY <4>1, <4>2 DEF Numbered
      <4> QED BY <3>2, <3>4, <3>6, <4>2, <4>3
    <3> QED BY <1>2, <3>2, <3>5, <3>6
  <2> QED BY <2>2, <2>3
<1>3. ASSUME UNCHANGED <<eventChan, written>> PROVE InOrder'
  BY <1>3 DEF InOrder
<1>4. ASSUME NEW d \in Conns, Subscribe(d) \/ HangUp(d) \/ Leave(d) \/ Unsubscribe(d)
      PROVE  InOrder'
  BY <1>3, <1>4 DEF Subscribe, HangUp, Leave, Unsubscribe
<1>5. ASSUME NEW p \in Publishers, NEW type \in TypeNames, Publish(p, type)
      PROVE  InOrder'
  BY <1>3, <1>5 DEF Publish
<1>6. ASSUME NEW p \in Publishers, NEW d \in Conns, Call(p, d) PROVE InOrder'
  BY <1>3, <1>6 DEF Call
<1>7. CASE UNCHANGED vars
  BY <1>3, <1>7 DEF vars
<1>8. ASSUME NEW d \in Conns, Receive(d) PROVE InOrder'
  BY <1>1, <1>8 DEF InOrder, Before
<1>9. ASSUME NEW p \in Publishers, Handle(p) PROVE InOrder'
  BY <1>2, <1>9 DEF InOrder, Before
<1> QED BY <1>4, <1>5, <1>6, <1>7, <1>8, <1>9 DEF Next

\* A client reads the events of one publisher in the order of their publication
\* and none twice (eventbus.go:42-44, server.go:325, 350).
THEOREM StreamOrder == Spec => []InOrder
<1>1. Init => Numbered /\ InOrder
  <2> SUFFICES ASSUME Init PROVE Numbered /\ InOrder
    OBVIOUS
  <2>1. \A c \in Conns : Len(eventChan[c]) = 0 /\ written[c] = {}
    BY DEF Init
  <2>2. \A c \in Conns : Delivered(c) = {}
    BY <2>1 DEF Delivered, Elements
  <2>3. InOrder
    BY <2>1 DEF InOrder
  <2>4. Numbered
    BY <2>2 DEF Init, Numbered
  <2> QED BY <2>3, <2>4
<1> QED BY <1>1, NumberedInductive, InOrderInductive, StreamInvInductive, PTL DEF Spec
=============================================================================
