---------------------------- MODULE MCResilience ----------------------------
(* Both parts of engine/resilience.go: retries around model calls, and the  *)
(* circuit breaker.  They share no state, so that a behaviour of one with   *)
(* the other at rest shows all there is to see of it.                       *)
EXTENDS ModelCall, CircuitBreaker

CONSTANTS c1, c2

MCChain == <<"openai", "anthropic">>

\* A conversation with a role no provider knows and a part only the store knows.
\* The second caller is there to share the breakers.
Observed == <<[role |-> "Observer", parts |-> <<Text("x")>>],
              [role |-> "User", parts |-> <<Text("hi"), [type |-> "File", id |-> "", text |-> "f"]>>]>>
MCConversations == [c \in Callers |-> {Observed}]
MCPolicies == [c \in Callers |-> IF c = c1 THEN {0, 2} ELSE {1}]
MCModes    == [c \in Callers |-> IF c = c1 THEN <<BOOLEAN, {FALSE}>> ELSE <<{FALSE}>>]

\* Text and two calls; calls only, one with garbled arguments.
TwoCalls == <<ToolCall("k1", "a"), ToolCall("k2", "garbled")>>
MCReplies ==
    [openai    |-> {[content |-> "", toolCalls |-> TwoCalls]},
     anthropic |-> {<<[type |-> "thinking", id |-> "", text |-> "t"], Text("so")>> \o TwoCalls}]

Chunk(t, calls) == [event |-> "chunk", text |-> t, calls |-> calls]
MCLines ==
    [openai    |-> {[event |-> "noise", text |-> "", calls |-> <<>>],
                    Chunk("so", <<[name |-> "", args |-> "{"]>>),
                    Chunk("", <<[name |-> "", args |-> ""]>>),
                    Chunk("", <<[name |-> "echo", args |-> "{}"]>>),
                    [event |-> "[DONE]", text |-> "", calls |-> <<>>]},
     anthropic |-> {[event |-> "ping", text |-> ""],
                    [event |-> "content_block_start", text |-> "echo"],
                    [event |-> "input_json_delta", text |-> "{"],
                    [event |-> "message_stop", text |-> ""]}]

VARIABLE part   \* the part that this behaviour is about

MCVars == <<vars, breakerVars, part>>

\* The services of a resting breaker are well.
MCInit ==
    /\ Init
    /\ BreakerInit
    /\ part \in {"calls", "breaker"}
    /\ part = "calls" => healthy

MCNext ==
    \/ part = "calls" /\ Next /\ UNCHANGED <<breakerVars, part>>
    \/ part = "breaker" /\ BreakerNext /\ UNCHANGED <<vars, part>>

\* The fairness of FairSpec for the one part, of BreakerFairSpec for the other.
MCSpec ==
    /\ MCInit /\ [][MCNext]_MCVars
    /\ \A c \in Callers :
          /\ WF_MCVars(part = "calls" /\ CallerStep(c) /\ UNCHANGED <<breakerVars, part>>)
          /\ WF_MCVars(part = "calls" /\ StreamStep(c) /\ UNCHANGED <<breakerVars, part>>)
    /\ WF_MCVars(part = "breaker" /\ Elapse /\ UNCHANGED <<vars, part>>)
    /\ \A k \in Clients :
          /\ WF_MCVars(part = "breaker" /\ Allow(k) /\ UNCHANGED <<vars, part>>)
          /\ WF_MCVars(/\ part = "breaker"
                       /\ RecordSuccess(k) \/ RecordFailure(k)
                       /\ UNCHANGED <<vars, part>>)
=============================================================================
