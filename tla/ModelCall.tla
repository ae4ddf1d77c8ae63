----------------------------- MODULE ModelCall ------------------------------
(***************************************************************************)
(* A call to a model: RetryPolicy.Execute (engine/resilience.go) around a  *)
(* FallbackChainProvider (providers/fallback.go) of OpenAI and Anthropic   *)
(* providers, each with a gobreaker of its own that all callers share.     *)
(* With GenerateStream a successful call leaves a goroutine behind that    *)
(* reads the body line by line and hands token deltas to the caller over   *)
(* an unbuffered channel.                                                  *)
(*                                                                         *)
(* Delays are not modelled: a back-off ends at some time or is cut short   *)
(* by the caller's context.                                                *)
(***************************************************************************)
EXTENDS Prompt, FiniteSets

CONSTANTS
    Callers,        \* nodes of several runs that share the chain
    Chain,          \* FallbackChainProvider.Chain: "openai" and "anthropic"
    Policies,       \* Policies[c]: values of RetryPolicy.MaxAttempts c uses
    Modes,          \* Modes[c][t]: whether the t-th call of c may be GenerateStream
                    \* (TRUE), Generate (FALSE) or either; its length bounds the calls
    TripAfter,      \* consecutive failures a closed gobreaker tolerates (5)
    Conversations,  \* Conversations[c]: messages of c's state before its first call
    SystemPrompt,   \* Variables["system_prompt"]
    Tools,          \* Variables["tools"]
    Replies,        \* Replies[p]: reply bodies of service p
    Lines,          \* Lines[p]: lines of an event stream of p
    MaxLines,       \* bound on the lines of a stream
    MayCancel       \* callers whose context may be cancelled

ASSUME ModelCallAssumption ==
    /\ Policies \in [Callers -> SUBSET Nat]
    /\ Modes \in [Callers -> Seq(SUBSET BOOLEAN)]
    /\ Chain \in Seq({"openai", "anthropic"})
    /\ TripAfter \in Nat
    /\ Lines["openai"] \subseteq [event : STRING, text : STRING,
                                  calls : Seq([name : STRING, args : STRING])]
    /\ Lines["anthropic"] \subseteq [event : STRING, text : STRING]
    /\ MaxLines \in Nat

IsSeq(s) == s \in Seq(ToSet(s))

\* Ids of the calls, or of the results, among some parts and in some messages.
PartIds(parts, t) == {p.id : p \in {q \in parts : q.type = t}}
IdsOf(msgs, t)    == PartIds(UNION {ToSet(m.parts) : m \in ToSet(msgs)}, t)

\* The calls of a reply have ids.
Named(parts) == \A p \in ToSet(parts) : p.type = "ToolCall" => p.id # ""

\* A conversation a model can be asked to go on with: its messages are valid,
\* those of no known role have neither calls nor results, and each call has an
\* id and a result.
Sound(msgs) ==
    /\ IsSeq(msgs)
    /\ \A m \in ToSet(msgs) :
          /\ IsSeq(m.parts) /\ Validate(m) /\ Named(m.parts)
          /\ mapRole(m.role) = "unknown" =>
                \A p \in ToSet(m.parts) : p.type \notin {"ToolCall", "ToolResult"}
    /\ IdsOf(msgs, "ToolResult") = IdsOf(msgs, "ToolCall")

ASSUME ConversationAssumption ==
    /\ \A c \in Callers : \A msgs \in Conversations[c] : Sound(msgs)
    /\ \A choice \in Replies["openai"] :
          /\ IsSeq(choice.toolCalls)
          /\ \A call \in ToSet(choice.toolCalls) : call.id # ""
    /\ \A blocks \in Replies["anthropic"] : IsSeq(blocks) /\ Named(blocks)

VARIABLES
    (* callers *)
    pc,         \* "idle", "try", "wire", "doomed", "backoff", "stream", "done"
    turn,       \* calls begun
    budget,     \* MaxAttempts of the call's policy
    attempt,    \* the loop variable of Execute
    pos,        \* the provider of the chain that is tried
    lastErr,    \* FallbackChainProvider's lastErr
    streaming,  \* whether the call is GenerateStream
    cancelled,  \* the caller's context is done
    ret,        \* what the call returned
    asked,      \* asked[c][i]: times the call asked the i-th provider (history)
    (* conversations *)
    conv,       \* the messages of the caller's state
    typed,      \* Variables["tools"] still has its Go type
    prompt,     \* the last request c sent
    (* providers *)
    cb,         \* the gobreaker of each provider
    (* streams *)
    lines,      \* lines of the body read so far (history)
    todo,       \* deltas of the current line not handed over yet
    got,        \* deltas the caller received
    errCh,      \* what is in errCh
    open,       \* the goroutine of the stream is running
    reading     \* the caller receives from the channel

callVars   == <<pc, turn, budget, attempt, pos, lastErr, streaming, cancelled, ret, asked>>
convVars   == <<conv, typed, prompt>>
streamVars == <<lines, todo, got, errCh, open, reading>>
vars       == <<callVars, convVars, cb, streamVars>>

Providers == {"openai", "anthropic"}

NoAnswer == [from |-> "none", parts |-> <<>>]
NoPrompt == [to |-> "none"]

Init ==
    /\ pc = [c \in Callers |-> "idle"]
    /\ turn = [c \in Callers |-> 0]
    /\ budget = [c \in Callers |-> 0]
    /\ attempt = [c \in Callers |-> 0]
    /\ pos = [c \in Callers |-> 1]
    /\ lastErr = [c \in Callers |-> "nil"]
    /\ streaming = [c \in Callers |-> FALSE]
    /\ cancelled = [c \in Callers |-> FALSE]
    /\ ret = [c \in Callers |-> [err |-> "nil", answer |-> NoAnswer]]
    /\ asked = [c \in Callers |-> [i \in 1..Len(Chain) |-> 0]]
    /\ conv \in {f \in [Callers -> UNION {Conversations[c] : c \in Callers}] :
                    \A c \in Callers : f[c] \in Conversations[c]}
    /\ typed = [c \in Callers |-> TRUE]
    /\ prompt = [c \in Callers |-> NoPrompt]
    /\ cb = [p \in Providers |-> [state |-> "closed", fails |-> 0, flight |-> {}]]
    /\ lines = [c \in Callers |-> <<>>]
    /\ todo = [c \in Callers |-> <<>>]
    /\ got = [c \in Callers |-> <<>>]
    /\ errCh = [c \in Callers |-> "empty"]
    /\ open = [c \in Callers |-> FALSE]
    /\ reading = [c \in Callers |-> FALSE]
-----------------------------------------------------------------------------
(* gobreaker (external), with the default settings: it trips on more than   *)
(* TripAfter consecutive failures and lets one request through when         *)
(* half-open.  Outcomes of requests that entered before the last change of  *)
(* state are ignored: flight holds the requests whose outcome counts.       *)

Admits(p) == \/ cb[p].state = "closed"
             \/ cb[p].state = "half-open" /\ cb[p].flight = {}

\* The breaker after the outcome of a request.
Reported(b, c, ok) ==
    LET fresh(s) == [state |-> s, fails |-> 0, flight |-> {}]
        rest == [b EXCEPT !.flight = @ \ {c}]
    IN CASE c \notin b.flight -> b
         [] ok /\ b.state = "closed" -> [rest EXCEPT !.fails = 0]
         [] ok /\ b.state = "half-open" -> fresh("closed")
         [] ~ok /\ b.state = "closed" /\ b.fails < TripAfter ->
                [rest EXCEPT !.fails = @ + 1]
         [] OTHER -> fresh("open")

\* The open period of a breaker ends.
Expire(p) ==
    /\ cb[p].state = "open"
    /\ cb' = [cb EXCEPT ![p].state = "half-open"]
    /\ UNCHANGED <<callVars, convVars, streamVars>>
-----------------------------------------------------------------------------
(* RetryPolicy and FallbackChainProvider *)

\* The call returns, and its local variables go out of scope.
Return(c, next, err, answer) ==
    /\ pc' = [pc EXCEPT ![c] = next]
    /\ ret' = [ret EXCEPT ![c] = [err |-> err, answer |-> answer]]
    /\ attempt' = [attempt EXCEPT ![c] = 0]
    /\ pos' = [pos EXCEPT ![c] = 1]
    /\ lastErr' = [lastErr EXCEPT ![c] = "nil"]
    /\ prompt' = [prompt EXCEPT ![c] = NoPrompt]

\* The call goes on.
Continue(c, next) ==
    /\ pc' = [pc EXCEPT ![c] = next]
    /\ UNCHANGED <<ret, prompt>>

\* Execute with MaxAttempts = n begins, and with it the first pass through the
\* chain; with no attempts at all it returns nil at once.
Begin(c, n, stream) ==
    /\ pc[c] = "idle"
    /\ turn[c] < Len(Modes[c])
    /\ stream \in Modes[c][turn[c] + 1]
    /\ turn' = [turn EXCEPT ![c] = @ + 1]
    /\ budget' = [budget EXCEPT ![c] = n]
    /\ streaming' = [streaming EXCEPT ![c] = stream]
    /\ asked' = [asked EXCEPT ![c] = [i \in 1..Len(Chain) |-> 0]]
    /\ IF n = 0 THEN Return(c, "done", "nil", NoAnswer)
       ELSE Continue(c, "try") /\ UNCHANGED <<attempt, pos, lastErr>>
    /\ UNCHANGED <<cancelled, conv, typed, cb, streamVars>>

\* A provider fails: a fatal error leaves the chain and the policy, any other
\* one moves on to the next provider.
ProviderFails(c, err) ==
    IF err = "Fatal" THEN Return(c, "done", "Fatal", NoAnswer)
    ELSE /\ Continue(c, "try")
         /\ pos' = [pos EXCEPT ![c] = @ + 1]
         /\ lastErr' = [lastErr EXCEPT ![c] = err]
         /\ UNCHANGED attempt

\* Mutant: the last attempt is not recognised, and the loop runs out.
ExhaustedLate(c) ==
    /\ pc[c] = "try"
    /\ pos[c] > Len(Chain)
    /\ CASE lastErr[c] # "Retriable" -> Return(c, "done", "plain", NoAnswer)
         [] lastErr[c] = "Retriable" /\ attempt[c] = budget[c] ->
               Return(c, "done", "nil", NoAnswer)
         [] OTHER -> Continue(c, "backoff") /\ UNCHANGED <<attempt, pos, lastErr>>
    /\ UNCHANGED <<turn, budget, streaming, cancelled, asked, conv, typed, cb, streamVars>>

\* The chain is exhausted.  Its error wraps lastErr, so that Execute still finds
\* a retriable error in it; the error of an empty chain wraps nothing.  Execute
\* backs off, or turns the error into a fatal one after the last attempt.
Exhausted(c) ==
    /\ pc[c] = "try"
    /\ pos[c] > Len(Chain)
    /\ CASE lastErr[c] # "Retriable" -> Return(c, "done", "plain", NoAnswer)
         [] lastErr[c] = "Retriable" /\ attempt[c] = budget[c] - 1 ->
               Return(c, "done", "escalated", NoAnswer)
         [] OTHER -> Continue(c, "backoff") /\ UNCHANGED <<attempt, pos, lastErr>>
    /\ UNCHANGED <<turn, budget, streaming, cancelled, asked, conv, typed, cb, streamVars>>

\* Mutant: the loop variable is not advanced.
RetryForever(c) ==
    /\ pc[c] = "backoff"
    /\ pos' = [pos EXCEPT ![c] = 1]
    /\ lastErr' = [lastErr EXCEPT ![c] = "nil"]
    /\ asked' = [asked EXCEPT ![c] = [i \in 1..Len(Chain) |-> 0]]
    /\ Continue(c, "try")
    /\ UNCHANGED <<turn, budget, attempt, streaming, cancelled, conv, typed, cb, streamVars>>

\* The back-off is over: the next attempt starts at the head of the chain.
Retry(c) ==
    /\ pc[c] = "backoff"
    /\ attempt' = [attempt EXCEPT ![c] = @ + 1]
    /\ pos' = [pos EXCEPT ![c] = 1]
    /\ lastErr' = [lastErr EXCEPT ![c] = "nil"]
    /\ Continue(c, "try")
    /\ UNCHANGED <<turn, budget, streaming, cancelled, asked, conv, typed, cb, streamVars>>

\* The context is done while Execute waits.
RetryCancelled(c) ==
    /\ pc[c] = "backoff"
    /\ cancelled[c]
    /\ Return(c, "done", "ctx", NoAnswer)
    /\ UNCHANGED <<turn, budget, streaming, cancelled, asked, conv, typed, cb, streamVars>>
-----------------------------------------------------------------------------
(* The providers *)

Request(c, p) ==
    IF p = "openai" THEN OpenAIRequest(conv[c], SystemPrompt, Tools, typed[c])
                    ELSE AnthropicRequest(conv[c], SystemPrompt, Tools, typed[c])

\* The category of the error for a status other than 200.
openaiHTTPError(status) ==
    CASE status = 429 -> "Retriable"
      [] status \in {400, 401, 403, 404} -> "Fatal"
      [] status \in {500, 502, 503, 504} -> "Retriable"
      [] OTHER -> "Fatal"

anthropicHTTPError(status) ==
    CASE status = 429 -> "Retriable"
      [] status \in {400, 401, 403, 404} -> "Fatal"
      [] status \in {500, 502, 503, 504} -> "Retriable"
      [] OTHER -> "Fatal"

HTTPError(p, status) == IF p = "openai" THEN openaiHTTPError(status)
                                        ELSE anthropicHTTPError(status)

Asking(c) == asked' = [asked EXCEPT ![c][pos[c]] = @ + 1]

\* The request cannot be built (a schema that is not JSON, a bad base URL).
Unbuildable(c) ==
    /\ pc[c] = "try"
    /\ pos[c] <= Len(Chain)
    /\ Asking(c)
    /\ ProviderFails(c, "Fatal")
    /\ UNCHANGED <<turn, budget, streaming, cancelled, conv, typed, cb, streamVars>>

\* The request is built and offered to the breaker, which refuses it with an
\* error the provider calls retriable, or lets it go out.  A request whose
\* context is already done never reaches the service.
Send(c) ==
    /\ pc[c] = "try"
    /\ pos[c] <= Len(Chain)
    /\ Asking(c)
    /\ LET p == Chain[pos[c]] IN
       IF Admits(p)
       THEN /\ prompt' = [prompt EXCEPT ![c] = [to |-> p, body |-> Request(c, p)]]
            /\ cb' = [cb EXCEPT ![p].flight = @ \cup {c}]
            /\ pc' = [pc EXCEPT ![c] = IF cancelled[c] THEN "doomed" ELSE "wire"]
            /\ UNCHANGED <<attempt, pos, lastErr, ret>>
       ELSE /\ ProviderFails(c, "Retriable")
            /\ UNCHANGED cb
    /\ UNCHANGED <<turn, budget, streaming, cancelled, conv, typed, streamVars>>

\* The breaker of the provider that was asked hears how the request ended.
Tell(c, ok) == cb' = [cb EXCEPT ![Chain[pos[c]]] = Reported(@, c, ok)]

\* No HTTP response: the breaker counts a failure, also for a caller that
\* cancelled its own request.
TransportFails(c) ==
    /\ pc[c] \in {"wire", "doomed"}
    /\ Tell(c, FALSE)
    /\ ProviderFails(c, "Retriable")
    /\ UNCHANGED <<turn, budget, streaming, cancelled, asked, conv, typed, streamVars>>

\* A response with an error status: for the breaker that is a success.
StatusError(c, status) ==
    /\ pc[c] = "wire"
    /\ Tell(c, TRUE)
    /\ ProviderFails(c, HTTPError(Chain[pos[c]], status))
    /\ UNCHANGED <<turn, budget, streaming, cancelled, asked, conv, typed, streamVars>>

\* Generate gets 200 and a body that does not decode or has no content.
BadBody(c) ==
    /\ pc[c] = "wire"
    /\ ~streaming[c]
    /\ Tell(c, TRUE)
    /\ ProviderFails(c, "Fatal")
    /\ UNCHANGED <<turn, budget, streaming, cancelled, asked, conv, typed, streamVars>>

\* Generate gets 200 and a reply.
Answer(c, reply) ==
    /\ pc[c] = "wire"
    /\ ~streaming[c]
    /\ Tell(c, TRUE)
    /\ LET p == Chain[pos[c]] IN
       Return(c, "done", "nil",
              [from |-> p, parts |-> IF p = "openai" THEN OpenAIResponse(reply)
                                                     ELSE AnthropicResponse(reply)])
    /\ UNCHANGED <<turn, budget, streaming, cancelled, asked, conv, typed, streamVars>>

\* GenerateStream gets 200: it starts the goroutine and returns the channels,
\* which ends the chain and the retries.
OpenStream(c) ==
    /\ pc[c] = "wire"
    /\ streaming[c]
    /\ Tell(c, TRUE)
    /\ Return(c, "stream", "nil", [from |-> Chain[pos[c]], parts |-> <<>>])
    /\ open' = [open EXCEPT ![c] = TRUE]
    /\ reading' = [reading EXCEPT ![c] = TRUE]
    /\ UNCHANGED <<turn, budget, streaming, cancelled, asked, conv, typed,
                   lines, todo, got, errCh>>
-----------------------------------------------------------------------------
(* The goroutine of a stream *)

Deltas(p, line) == IF p = "openai" THEN OpenAIDeltas(line) ELSE AnthropicDeltas(line)

Close(c) == open' = [open EXCEPT ![c] = FALSE]

\* Scan returns a line.  The context is looked at once, before the line is
\* parsed; the deltas are then sent without looking again.
ScanLine(c, line) ==
    /\ open[c]
    /\ todo[c] = <<>>
    /\ Len(lines[c]) < MaxLines
    /\ IF cancelled[c]
       THEN /\ errCh' = [errCh EXCEPT ![c] = "Fatal"]
            /\ Close(c)
            /\ UNCHANGED <<lines, todo>>
       ELSE /\ lines' = [lines EXCEPT ![c] = Append(@, line)]
            /\ todo' = [todo EXCEPT ![c] = Deltas(ret[c].answer.from, line)]
            /\ UNCHANGED <<errCh, open>>
    /\ UNCHANGED <<callVars, convVars, cb, got, reading>>

\* The body ends, with an error when the connection broke or the context was
\* cancelled while Scan was waiting.
ScanEnds(c, broken) ==
    /\ open[c]
    /\ todo[c] = <<>>
    /\ errCh' = [errCh EXCEPT ![c] = IF broken THEN "Retriable" ELSE @]
    /\ Close(c)
    /\ UNCHANGED <<callVars, convVars, cb, lines, todo, got, reading>>

\* Mutant: the goroutine goes on reading after the end marker.
ReceiveOn(c) ==
    /\ open[c]
    /\ reading[c]
    /\ todo[c] # <<>>
    /\ got' = [got EXCEPT ![c] = Append(@, Head(todo[c]))]
    /\ todo' = [todo EXCEPT ![c] = Tail(@)]
    /\ UNCHANGED <<callVars, convVars, cb, lines, errCh, open, reading>>

\* A delta changes hands; after the one that says Done the goroutine returns.
Receive(c) ==
    /\ open[c]
    /\ reading[c]
    /\ todo[c] # <<>>
    /\ got' = [got EXCEPT ![c] = Append(@, Head(todo[c]))]
    /\ todo' = [todo EXCEPT ![c] = Tail(@)]
    /\ open' = [open EXCEPT ![c] = Head(todo[c]).type # "Done"]
    /\ UNCHANGED <<callVars, convVars, cb, lines, errCh, reading>>
-----------------------------------------------------------------------------
(* The callers (external) *)

Cancel(c) ==
    /\ c \in MayCancel
    /\ pc[c] \in {"try", "wire", "backoff", "stream"}
    /\ ~cancelled[c]
    /\ cancelled' = [cancelled EXCEPT ![c] = TRUE]
    /\ UNCHANGED <<pc, turn, budget, attempt, pos, lastErr, streaming, ret, asked,
                   convVars, cb, streamVars>>

\* The caller stops receiving before the channel is closed.
StopReading(c) ==
    /\ pc[c] = "stream"
    /\ open[c]
    /\ reading[c]
    /\ reading' = [reading EXCEPT ![c] = FALSE]
    /\ UNCHANGED <<callVars, convVars, cb, lines, todo, got, errCh, open>>

\* The reply and the results of its tool calls join the conversation, as one
\* message per result or as one message with all of them, and the state may
\* pass through a store before the next call.
NextTurn(c, together, reloaded) ==
    LET calls   == OfType(ret[c].answer.parts, "ToolCall")
        results == [i \in DOMAIN calls |-> ToolResult(calls[i].id, "r")]
        said    == [role |-> "Assistant", parts |-> ret[c].answer.parts]
        replies == IF together /\ results # <<>> THEN <<[role |-> "Tool", parts |-> results]>>
                   ELSE [i \in DOMAIN results |-> [role |-> "Tool", parts |-> <<results[i]>>]]
    IN /\ pc[c] = "done"
       /\ ret[c].answer.from # "none"
       /\ turn[c] < Len(Modes[c])
       /\ conv' = [conv EXCEPT ![c] = (@ \o <<said>>) \o replies]
       /\ typed' = [typed EXCEPT ![c] = @ /\ ~reloaded]
       /\ pc' = [pc EXCEPT ![c] = "idle"]
       /\ UNCHANGED <<turn, budget, attempt, pos, lastErr, streaming, cancelled, ret, asked,
                      prompt, cb, streamVars>>

CallerStep(c) ==
    \/ Exhausted(c)
    \/ Retry(c)
    \/ RetryCancelled(c)
    \/ Send(c)
    \/ TransportFails(c)
    \/ \E status \in {429, 400, 503, 418} : StatusError(c, status)
    \/ BadBody(c)
    \/ pc[c] = "wire" /\ \E reply \in Replies[Chain[pos[c]]] : Answer(c, reply)
    \/ OpenStream(c)

StreamStep(c) ==
    \/ open[c] /\ \E line \in Lines[ret[c].answer.from] : ScanLine(c, line)
    \/ \E broken \in BOOLEAN : ScanEnds(c, broken)
    \/ Receive(c)

Next ==
    \/ \E c \in Callers :
         \/ \E n \in Policies[c], stream \in BOOLEAN : Begin(c, n, stream)
         \/ CallerStep(c)
         \/ Unbuildable(c)
         \/ StreamStep(c)
         \/ Cancel(c)
         \/ StopReading(c)
         \/ \E together, reloaded \in BOOLEAN : NextTurn(c, together, reloaded)
    \/ \E p \in Providers : Expire(p)

Spec == Init /\ [][Next]_vars

\* Loops and goroutines run on, requests are answered or time out, and bodies
\* end; nothing is assumed of a caller that stopped reading or cancelled.
CallFairness == \A c \in Callers : WF_vars(CallerStep(c)) /\ WF_vars(StreamStep(c))

FairSpec == Spec /\ CallFairness
-----------------------------------------------------------------------------
(* Properties *)

\* What Execute hands to the engine: no error means that there is an answer
\* (engine.go dereferences it), except under a policy of no attempts; an error
\* is never still retriable; and a call gives up on retriable failures only
\* after every provider was asked in every attempt.
AnswerOrError ==
    \A c \in Callers : pc[c] = "done" =>
        /\ ret[c].err # "Retriable"
        /\ ret[c].err = "nil" => \/ ret[c].answer.from # "none"
                                 \/ budget[c] = 0
        /\ ret[c].err = "escalated" =>
                \A i \in 1..Len(Chain) : asked[c][i] = budget[c]

\* Ids of the tool calls and of the tool results in a request.
CallsSent(r) ==
    IF r.to = "openai"
    THEN PartIds(UNION {ToSet(m.toolCalls) : m \in ToSet(r.body.messages)}, "ToolCall")
    ELSE PartIds(UNION {ToSet(m.content) : m \in ToSet(r.body.messages)}, "ToolCall")

ResultsSent(r) ==
    IF r.to = "openai"
    THEN {m.toolCallID : m \in ToSet(r.body.messages)} \ {""}
    ELSE PartIds(UNION {ToSet(m.content) : m \in ToSet(r.body.messages)}, "ToolResult")

\* While a request is out: whichever provider gets it, also after the other one
\* wrote the conversation so far, it carries every tool call of the conversation
\* and an answer to each, except that OpenAI's mapMessages keeps one result of a
\* message that holds several; and it offers the tools unless the state was
\* reloaded.
PromptComplete ==
    \A c \in Callers : pc[c] \in {"wire", "doomed"} =>
        LET several == \E m \in ToSet(conv[c]) : Len(OfType(m.parts, "ToolResult")) > 1
        IN /\ CallsSent(prompt[c]) = IdsOf(conv[c], "ToolCall")
           /\ \/ ResultsSent(prompt[c]) = CallsSent(prompt[c])
              \/ prompt[c].to = "openai" /\ several
           /\ typed[c] => prompt[c].body.tools = Tools

\* What a chunk says of a tool call: its name, its arguments, or both; one
\* without a name goes on with the arguments, even if with none.
Saying(call) ==
    (IF call.name = "" THEN <<>>
     ELSE <<[type |-> "ToolCall", content |-> <<"header", call.name>>]>>)
      \o (IF call.name # "" /\ call.args = "" THEN <<>>
          ELSE <<[type |-> "ToolCall", content |-> <<call.args>>]>>)

\* All that a line of the stream says, piece by piece.
Whole(p, line) ==
    IF p = "anthropic" \/ line.event # "chunk" THEN Deltas(p, line)
    ELSE (IF line.text = "" THEN <<>> ELSE <<[type |-> "Text", content |-> <<line.text>>]>>)
         \o FlattenSeq([i \in DOMAIN line.calls |-> Saying(line.calls[i])])

\* A chunk that says more than one thing about tool calls.
Crowded(line) ==
    /\ line.event = "chunk"
    /\ \/ Len(line.calls) > 1
       \/ \E i \in DOMAIN line.calls : line.calls[i].name # "" /\ line.calls[i].args # ""

\* The caller of a stream gets everything the service sent, once and in order
\* (crowded chunks of OpenAI excepted, of which parts are lost), Done is the last
\* thing it gets, and there is never both a Done and an error.
StreamComplete ==
    \A c \in Callers : LET p == ret[c].answer.from IN
        /\ (\A i \in DOMAIN lines[c] : ~Crowded(lines[c][i])) =>
              got[c] \o todo[c] = FlattenSeq([i \in DOMAIN lines[c] |-> Whole(p, lines[c][i])])
        /\ \A i \in DOMAIN got[c] : got[c][i].type = "Done" =>
              i = Len(got[c]) /\ ~open[c] /\ errCh[c] = "empty"

\* Every call returns, and the goroutine of every stream ends unless its caller
\* stopped reading while a delta was on its way: then it waits for ever.
CallsAndStreamsEnd ==
    \A c \in Callers :
        (pc[c] = "try" \/ open[c]) ~>
            \/ pc[c] = "done"
            \/ pc[c] = "stream" /\ (~open[c] \/ (todo[c] # <<>> /\ ~reading[c]))
=============================================================================
