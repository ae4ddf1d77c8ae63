----------------------------- MODULE ReActAgent -----------------------------
(***************************************************************************)
(* Agents that plan with a ReActPlanner (planner/react.go) and call their  *)
(* tools through a registry.  The two nodes that the planner names and the *)
(* loop that calls Revise after each node belong to the host: they are     *)
(* modelled as the comments of the planner describe them.  The LLM node    *)
(* sets the variable tool_call or leaves it alone, and the tool node runs  *)
(* a batch and may or may not clear it.                                    *)
(***************************************************************************)
EXTENDS ToolRegistry

CONSTANTS
    Limit,      \* the argument of NewReActPlanner
    Batches,    \* batches of calls the model may ask for
    MayReload   \* sessions that may be saved and loaded again between two nodes

ASSUME PlannerAssumption ==
    /\ Limit \in Nat
    /\ Batches \subseteq Seq(Call)

\* NewReActPlanner: without a limit there are 20 rounds.
maxRounds == IF Limit = 0 THEN 20 ELSE Limit

VARIABLES
    pc,         \* pc[s]: "plan", "node", "tools", "revise", "end", "error"
    next,       \* next[s]: NextNodeID of the planner's last answer
    steps,      \* steps[s]: Plan.Steps
    toolCall,   \* toolCall[s]: Variables["tool_call"], <<>> if unset
    observation, \* observation[s]: what the node that ran hands to Revise
    typed,      \* typed[s]: Variables["__plan__"] holds a *Plan
    executed,   \* executed[s]: nodes that ran (history)
    observed    \* observed[s]: observations that Revise was given (history)

planVars == <<pc, next, steps, toolCall, observation, typed, executed, observed>>
vars == <<toolVars, planVars>>

Nodes == {"LLMNode", "ToolExecutorNode", "__terminal__"}

Init ==
    /\ ToolInit
    /\ pc = [s \in Sessions |-> "plan"]
    /\ next = [s \in Sessions |-> "LLMNode"]
    /\ steps = [s \in Sessions |-> <<>>]
    /\ toolCall = [s \in Sessions |-> <<>>]
    /\ observation = [s \in Sessions |-> ""]
    /\ typed = [s \in Sessions |-> TRUE]
    /\ executed = [s \in Sessions |-> <<>>]
    /\ observed = [s \in Sessions |-> <<>>]
-----------------------------------------------------------------------------
(* Plans *)

Step(node) == [node |-> node, status |-> "Pending", obs |-> ""]

\* The first step with a status, 0 if there is none.
First(plan, status) ==
    LET hits == {i \in DOMAIN plan : plan[i].status = status}
    IN IF hits = {} THEN 0 ELSE CHOOSE i \in hits : \A j \in hits : i <= j

\* The first running step is completed with the observation.
CompleteRunning(plan, obs) ==
    LET i == First(plan, "Running")
    IN IF i = 0 THEN plan
       ELSE [plan EXCEPT ![i] = [@ EXCEPT !.status = "Completed", !.obs = obs]]

\* The first pending step is set running.
StartPending(plan) ==
    LET i == First(plan, "Pending")
    IN IF i = 0 THEN plan ELSE [plan EXCEPT ![i] = [@ EXCEPT !.status = "Running"]]

\* Mutant: steps without an observation are not counted.
CompletedObserved(plan) ==
    Cardinality({i \in DOMAIN plan : plan[i].status = "Completed" /\ plan[i].obs # ""})

CompletedTotal(plan) == Cardinality({i \in DOMAIN plan : plan[i].status = "Completed"})

\* Where a plan goes next: to the tools while tool_call is set, else to the
\* model with an observation, else to the end.
Choose(call, obs) ==
    CASE call # <<>> -> "ToolExecutorNode"
      [] call = <<>> /\ obs # "" -> "LLMNode"
      [] OTHER -> "__terminal__"
-----------------------------------------------------------------------------
(* The planner *)

Plan(s) ==
    /\ pc[s] = "plan"
    /\ steps' = [steps EXCEPT ![s] = <<Step("LLMNode")>>]
    /\ next' = [next EXCEPT ![s] = "LLMNode"]
    /\ pc' = [pc EXCEPT ![s] = "node"]
    /\ UNCHANGED <<toolVars, toolCall, observation, typed, executed, observed>>

\* The limit is on the steps that are completed by now: the terminal step that
\* is added when it is reached is not set running.
Revise(s) ==
    /\ pc[s] = "revise"
    /\ typed[s]
    /\ LET plan == CompleteRunning(steps[s], observation[s])
           node == Choose(toolCall[s], observation[s])
       IN IF CompletedTotal(plan) >= maxRounds
          THEN /\ steps' = [steps EXCEPT ![s] = Append(plan, Step("__terminal__"))]
               /\ next' = [next EXCEPT ![s] = "__terminal__"]
          ELSE /\ steps' = [steps EXCEPT ![s] = StartPending(Append(plan, Step(node)))]
               /\ next' = [next EXCEPT ![s] = node]
    /\ pc' = [pc EXCEPT ![s] = IF next'[s] = "__terminal__" THEN "end" ELSE "node"]
    /\ observed' = [observed EXCEPT ![s] = Append(@, observation[s])]
    /\ UNCHANGED <<toolVars, toolCall, observation, typed, executed>>

\* A plan that was encoded as JSON comes back as a map.
ReviseFails(s) ==
    /\ pc[s] = "revise"
    /\ ~typed[s]
    /\ pc' = [pc EXCEPT ![s] = "error"]
    /\ UNCHANGED <<toolVars, next, steps, toolCall, observation, typed, executed, observed>>
-----------------------------------------------------------------------------
(* The nodes (external) *)

\* The node hands its observation to Revise.
NodeEnds(s, obs) ==
    /\ pc' = [pc EXCEPT ![s] = "revise"]
    /\ observation' = [observation EXCEPT ![s] = obs]
    /\ executed' = [executed EXCEPT ![s] = Append(@, next[s])]
    /\ UNCHANGED <<next, steps, typed, observed>>

LLMNode(s) ==
    /\ pc[s] = "node"
    /\ next[s] = "LLMNode"
    /\ \E batch \in Batches \cup {<<>>} : toolCall' = [toolCall EXCEPT ![s] = batch]
    /\ \E obs \in {"", "thought"} : NodeEnds(s, obs)
    /\ UNCHANGED toolVars

ToolNodeBegins(s) ==
    /\ pc[s] = "node"
    /\ next[s] = "ToolExecutorNode"
    /\ ExecuteConcurrent(s, toolCall[s])
    /\ pc' = [pc EXCEPT ![s] = "tools"]
    /\ UNCHANGED <<next, steps, toolCall, observation, typed, executed, observed>>

\* The batch is back, and tool_call is cleared or not.
ToolNodeEnds(s) ==
    /\ pc[s] = "tools"
    /\ BatchDone(s)
    /\ \E call \in {<<>>, toolCall[s]} : toolCall' = [toolCall EXCEPT ![s] = call]
    /\ NodeEnds(s, "results")
    /\ calls' = [calls EXCEPT ![s] = <<>>]
    /\ gpc' = [gpc EXCEPT ![s] = <<>>]
    /\ results' = [results EXCEPT ![s] = <<>>]
    /\ window' = [window EXCEPT ![s] = {}]
    /\ UNCHANGED <<registryVars, tenant, ctxDone>>

\* The session is paused, and loaded from a store that keeps states as JSON.
Reload(s) ==
    /\ s \in MayReload
    /\ pc[s] \in {"node", "revise"}
    /\ typed' = [typed EXCEPT ![s] = FALSE]
    /\ UNCHANGED <<toolVars, pc, next, steps, toolCall, observation, executed, observed>>
-----------------------------------------------------------------------------
Administer ==
    /\ \/ \E tool \in Tools : Register(tool)
       \/ \E t \in Tenants \ {""}, p \in Patterns : GrantPermission(t, p) \/ RevokePermission(t, p)
    /\ UNCHANGED planVars

RunGoroutine(s) ==
    /\ \E i \in DOMAIN calls[s] : Goroutine(s, i)
    /\ UNCHANGED planVars

Agent(s) == Plan(s) \/ Revise(s) \/ ReviseFails(s) \/ LLMNode(s) \/ ToolNodeBegins(s)
            \/ ToolNodeEnds(s)

Next == \/ Administer
        \/ \E s \in Sessions : Agent(s) \/ RunGoroutine(s) \/ Reload(s) \/ (CtxDone(s) /\ UNCHANGED planVars)

Spec == Init /\ [][Next]_vars

\* The nodes run and built-in tools return; a tool of the host returns for sure
\* only if it heeds its context and that ends, by its sandbox or otherwise.
FairSpec ==
    /\ Spec
    /\ \A s \in Sessions :
          /\ WF_vars(Agent(s))
          /\ WF_vars((\E i \in DOMAIN calls[s] : SureStep(s, i)) /\ UNCHANGED planVars)
-----------------------------------------------------------------------------
\* A batch that returns has a result for each call, at the call's place, and
\* each tells the truth although permissions change and tools are registered
\* while the batch runs: a call was denied only if the tenant lacked the
\* permission at some time during the batch, and a tool ran only if the tenant
\* had it at some time during the batch (registry.go:78-112, 116-163).
ResultsTruthful ==
    \A s \in Sessions : pc[s] = "tools" /\ BatchDone(s) =>
        \A i \in DOMAIN calls[s] :
            LET tool == calls[s][i].tool
                may(perms) == Authorized(tenant[s], perms, tool)
            IN /\ results[s][i].call = i
               /\ results[s][i].kind = "denied" => \E perms \in window[s] : ~may(perms)
               /\ results[s][i].kind \in {"output", "error"} =>
                     tool \in tools /\ \E perms \in window[s] : may(perms)
               /\ results[s][i].kind # "none"

\* The plan follows the run, whatever the model and the tools do: its steps name
\* the nodes that ran, in order, and its last step the one the planner chose; it
\* is worked off from the front, at most one step at a time; the observations
\* in it are those Revise was given, in order, from the first or the second on,
\* none left out and none twice; and no more than maxRounds steps are completed
\* (react.go:94-174).
PlanFollowsRun ==
    \A s \in Sessions :
        LET plan == steps[s]
            ran  == executed[s]
            Are(status) == {i \in DOMAIN plan : plan[i].status = status}
        IN /\ pc[s] # "plan" => plan # <<>> /\ plan[Len(plan)].node = next[s]
           /\ \A i \in DOMAIN plan \cap DOMAIN ran : plan[i].node = ran[i]
           /\ \A i \in Are("Completed") : \A j \in DOMAIN plan \ Are("Completed") : i < j
           /\ \A i \in Are("Running") : \A j \in DOMAIN plan \ {i} :
                 plan[j].status = IF j < i THEN "Completed" ELSE "Pending"
           /\ \E first \in {1, 2} : \A i \in Are("Completed") :
                 /\ i + first - 1 \in DOMAIN observed[s]
                 /\ plan[i].obs = observed[s][i + first - 1]
           /\ Cardinality(Are("Completed")) <= maxRounds

\* What the planner says of its plan: after each node the step of that node is
\* updated (docs/setup/Phase2.md:123), and its Observation is the "result fed
\* back after execution" (react.go:28).  So a completed step holds what its own
\* node observed.
CompletedWithOwnObservation ==
    \A s \in Sessions : \A i \in DOMAIN steps[s] :
        steps[s][i].status = "Completed" => steps[s][i].obs = observed[s][i]

\* Every agent comes to its end, whatever the model and the tools answer:
\* whether tool_call is ever cleared or not, and whether permissions and tools
\* change or not.  It ends with an error when a reload has lost the plan, and it
\* takes tools of the host that are sandboxed and heed their context
\* (react.go:128-139, registry.go:116-163).
AgentEnds == \A s \in Sessions : <>(pc[s] \in {"end", "error"})
=============================================================================
