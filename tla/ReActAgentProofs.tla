-------------------------- MODULE ReActAgentProofs --------------------------
(***************************************************************************)
(* For any number of agents, tenants and tools, any batches and any changes *)
(* to the registry of tools/registry.go: results of a batch tell the truth. *)
(* And for any limit: the plan of planner/react.go follows the run.        *)
(***************************************************************************)
EXTENDS ReActAgent, FiniteSetTheorems, TLAPS

May(s, perms, i) == Authorized(tenant[s], perms, calls[s][i].tool)

\* A call may have been authorized, or may have been denied, during the batch.
WasAllowed(s, i) == \E perms \in window[s] : May(s, perms, i)
WasDenied(s, i)  == \E perms \in window[s] : ~May(s, perms, i)

\* What a goroutine has found out so far is true.
CallTruthful(s, i) ==
    /\ gpc[s][i] \in {"find", "execute"} => WasAllowed(s, i)
    /\ gpc[s][i] = "execute" => calls[s][i].tool \in tools
    /\ gpc[s][i] = "done" =>
          /\ results[s][i].call = i
          /\ results[s][i].kind \in {"denied", "not found", "output", "error"}
          /\ results[s][i].kind = "denied" => WasDenied(s, i)
          /\ results[s][i].kind \in {"output", "error"} =>
                WasAllowed(s, i) /\ calls[s][i].tool \in tools

\* Each goroutine has a place of its own, and the permissions in force belong to
\* those the batch has had.
BatchShape ==
    /\ tenant \in [Sessions -> Tenants]
    /\ DOMAIN allowed = Tenants
    /\ DOMAIN calls = Sessions /\ DOMAIN window = Sessions
    /\ DOMAIN gpc = Sessions /\ DOMAIN results = Sessions
    /\ \A s \in Sessions :
          /\ DOMAIN gpc[s] = DOMAIN calls[s]
          /\ DOMAIN results[s] = DOMAIN calls[s]
          /\ calls[s] # <<>> => allowed[tenant[s]] \in window[s]

TruthInv ==
    /\ BatchShape
    /\ \A s \in Sessions : \A i \in DOMAIN calls[s] : CallTruthful(s, i)

\* A call whose goroutine rests stays truthful: a batch forgets no permission it
\* has had, and tools are never taken out of the registry.
LEMMA RestingCall ==
    ASSUME NEW s, NEW i, CallTruthful(s, i),
           tenant'[s] = tenant[s], calls'[s] = calls[s],
           gpc'[s][i] = gpc[s][i], results'[s][i] = results[s][i],
           window[s] \subseteq window'[s], tools \subseteq tools'
    PROVE  CallTruthful(s, i)'
<1>1. WasAllowed(s, i) => WasAllowed(s, i)'
  BY DEF WasAllowed, May, Authorized
<1>2. WasDenied(s, i) => WasDenied(s, i)'
  BY DEF WasDenied, May, Authorized
<1> QED BY <1>1, <1>2 DEF CallTruthful

\* One goroutine moves; the rest of the registry stays (registry.go:121-163).
LEMMA GoroutineStep ==
    ASSUME TruthInv, NEW s \in Sessions, NEW i \in DOMAIN calls[s], NEW at,
           UNCHANGED <<registryVars, tenant, calls, ctxDone, window>>,
           gpc' = [gpc EXCEPT ![s][i] = at],
           \/ results' = results
           \/ \E r : results' = [results EXCEPT ![s][i] = r],
           CallTruthful(s, i)'
    PROVE  TruthInv'
<1> USE DEF registryVars
<1>1. BatchShape'
  BY DEF TruthInv, BatchShape
<1>2. ASSUME NEW t \in Sessions, NEW j \in DOMAIN calls'[t]
      PROVE  CallTruthful(t, j)'
  <2>1. CASE t = s /\ j = i
    BY <2>1
  <2>2. CASE ~(t = s /\ j = i)
    <3>1. j \in DOMAIN calls[t] /\ CallTruthful(t, j)
      BY <1>2 DEF TruthInv
    <3>2. gpc'[t][j] = gpc[t][j]
      BY <2>2, <3>1 DEF TruthInv, BatchShape
    <3>3. results'[t][j] = results[t][j]
      BY <2>2, <3>1 DEF TruthInv, BatchShape
    <3> QED BY <3>1, <3>2, <3>3, RestingCall
  <2> QED BY <2>1, <2>2
<1> QED BY <1>1, <1>2 DEF TruthInv

\* A result that tells the truth when it is written.
LEMMA ResultStep ==
    ASSUME TruthInv, NEW s \in Sessions, NEW i \in DOMAIN calls[s],
           NEW kind \in {"denied", "not found", "output", "error"},
           SetResult(s, i, kind),
           kind = "denied" => WasDenied(s, i),
           kind \in {"output", "error"} => WasAllowed(s, i) /\ calls[s][i].tool \in tools
    PROVE  TruthInv'
<1>1. /\ gpc'[s][i] = "done"
      /\ results'[s][i].call = i /\ results'[s][i].kind = kind
  BY DEF SetResult, TruthInv, BatchShape
<1>2. UNCHANGED <<tools, tenant, calls, window>>
  BY DEF SetResult, registryVars
<1>3. /\ WasAllowed(s, i) => WasAllowed(s, i)'
      /\ WasDenied(s, i) => WasDenied(s, i)'
  BY <1>2 DEF WasAllowed, WasDenied, May, Authorized
<1>4. CallTruthful(s, i)'
  BY <1>1, <1>2, <1>3 DEF CallTruthful
<1> QED BY <1>4, GoroutineStep DEF SetResult

\* A goroutine takes its next step.
LEMMA CallStep ==
    ASSUME TruthInv, NEW s \in Sessions, NEW i \in DOMAIN calls[s], Goroutine(s, i)
    PROVE  TruthInv'
<1>0. CallTruthful(s, i)
  BY DEF TruthInv
<1>1. CASE AuthorizeCall(s, i)
  <2>1. allowed[tenant[s]] \in window[s]
    BY DEF TruthInv, BatchShape
  <2>2. CASE May(s, allowed[tenant[s]], i)
    <3>1. /\ gpc' = [gpc EXCEPT ![s][i] = "find"]
          /\ UNCHANGED <<registryVars, tenant, calls, results, ctxDone, window>>
      BY <1>1, <2>2 DEF AuthorizeCall, May
    <3>2. WasAllowed(s, i)'
      BY <2>1, <2>2, <3>1 DEF WasAllowed, May, Authorized
    <3>3. gpc'[s][i] = "find"
      BY <3>1 DEF TruthInv, BatchShape
    <3>4. CallTruthful(s, i)'
      BY <3>2, <3>3 DEF CallTruthful
    <3> QED BY <3>1, <3>4, GoroutineStep
  <2>3. CASE ~May(s, allowed[tenant[s]], i)
    <3>1. SetResult(s, i, "denied") /\ WasDenied(s, i)
      BY <1>1, <2>1, <2>3 DEF AuthorizeCall, WasDenied, May
    <3> QED BY <3>1, ResultStep
  <2> QED BY <2>2, <2>3
<1>2. CASE FindTool(s, i)
  <2>1. WasAllowed(s, i)
    BY <1>0, <1>2 DEF FindTool, CallTruthful
  <2>2. CASE calls[s][i].tool \in tools
    <3>1. /\ gpc' = [gpc EXCEPT ![s][i] = "execute"]
          /\ UNCHANGED <<registryVars, tenant, calls, results, ctxDone, window>>
      BY <1>2, <2>2 DEF FindTool
    <3>2. WasAllowed(s, i)' /\ calls'[s][i].tool \in tools'
      BY <2>1, <2>2, <3>1 DEF WasAllowed, May, Authorized, registryVars
    <3>3. gpc'[s][i] = "execute"
      BY <3>1 DEF TruthInv, BatchShape
    <3>4. CallTruthful(s, i)'
      BY <3>2, <3>3 DEF CallTruthful
    <3> QED BY <3>1, <3>4, GoroutineStep
  <2>3. CASE calls[s][i].tool \notin tools
    BY <1>2, <2>3, ResultStep DEF FindTool
  <2> QED BY <2>2, <2>3
<1>3. CASE ToolReturns(s, i) \/ ToolTimesOut(s, i)
  <2>1. WasAllowed(s, i) /\ calls[s][i].tool \in tools
    BY <1>0, <1>3 DEF ToolReturns, ToolTimesOut, CallTruthful
  <2>2. \E kind \in {"output", "error"} : SetResult(s, i, kind)
    BY <1>3 DEF ToolReturns, ToolTimesOut, Outcome, EchoTool, SleepTool, SearchMemoryTool
  <2> QED BY <2>1, <2>2, ResultStep
<1> QED BY <1>1, <1>2, <1>3 DEF Goroutine

\* Permissions change while batches run: each batch remembers the new ones, and
\* what was true of the old ones stays true (registry.go:58-76).
LEMMA PermissionStep ==
    ASSUME TruthInv, NEW t \in Tenants, NEW perms, SetPermissions(t, perms)
    PROVE  TruthInv'
<1>1. /\ UNCHANGED <<tools, tenant, calls, gpc, results>>
      /\ allowed' = [allowed EXCEPT ![t] = perms]
      /\ window' = [s \in Sessions |-> IF tenant[s] = t /\ calls[s] # <<>>
                                       THEN window[s] \cup {perms} ELSE window[s]]
  BY DEF SetPermissions
<1>2. \A s \in Sessions : window[s] \subseteq window'[s]
  BY <1>1
<1>3. \A s \in Sessions : calls[s] # <<>> => allowed'[tenant[s]] \in window'[s]
  BY <1>1 DEF TruthInv, BatchShape
<1>4. BatchShape'
  BY <1>1, <1>3 DEF TruthInv, BatchShape
<1>5. ASSUME NEW s \in Sessions, NEW i \in DOMAIN calls'[s] PROVE CallTruthful(s, i)'
  <2>1. CallTruthful(s, i)
    BY <1>1 DEF TruthInv
  <2> QED BY <1>1, <1>2, <2>1, RestingCall
<1> QED BY <1>4, <1>5 DEF TruthInv

\* A step that moves no goroutine of the batches it leaves.
LEMMA RestingStep ==
    ASSUME TruthInv, BatchShape', tools \subseteq tools', tenant' = tenant,
           \A s \in Sessions : \/ DOMAIN calls'[s] = {}
                               \/ /\ calls'[s] = calls[s] /\ gpc'[s] = gpc[s]
                                  /\ results'[s] = results[s] /\ window'[s] = window[s]
    PROVE  TruthInv'
<1>1. ASSUME NEW s \in Sessions, NEW i \in DOMAIN calls'[s] PROVE CallTruthful(s, i)'
  <2>1. /\ calls'[s] = calls[s] /\ gpc'[s] = gpc[s]
        /\ results'[s] = results[s] /\ window'[s] = window[s]
    BY <1>1
  <2>2. CallTruthful(s, i)
    BY <1>1, <2>1 DEF TruthInv
  <2> QED BY <2>1, <2>2, RestingCall
<1> QED BY <1>1 DEF TruthInv

LEMMA TruthInductive == Spec => []TruthInv
<1>1. Init => TruthInv
  <2> SUFFICES ASSUME Init PROVE TruthInv
    OBVIOUS
  <2>1. /\ tenant \in [Sessions -> Tenants]
        /\ DOMAIN allowed = Tenants
        /\ DOMAIN calls = Sessions /\ DOMAIN window = Sessions
        /\ DOMAIN gpc = Sessions /\ DOMAIN results = Sessions
    BY DEF Init, ToolInit
  <2>2. \A s \in Sessions : calls[s] = <<>> /\ gpc[s] = <<>> /\ results[s] = <<>>
    BY DEF Init, ToolInit
  <2>3. DOMAIN <<>> = {}
    OBVIOUS
  <2> QED BY <2>1, <2>2, <2>3 DEF TruthInv, BatchShape
<1>2. TruthInv /\ [Next]_vars => TruthInv'
  <2> SUFFICES ASSUME TruthInv, [Next]_vars PROVE TruthInv'
    OBVIOUS
  <2>1. CASE UNCHANGED toolVars
    <3>1. BatchShape'
      BY <2>1 DEF toolVars, registryVars, batchVars, TruthInv, BatchShape
    <3> QED BY <2>1, <3>1, RestingStep DEF toolVars, registryVars, batchVars
  <2>2. ASSUME NEW tool \in Tools, Register(tool) PROVE TruthInv'
    <3>1. BatchShape'
      BY <2>2 DEF Register, batchVars, TruthInv, BatchShape
    <3> QED BY <2>2, <3>1, RestingStep DEF Register, batchVars
  <2>3. ASSUME NEW t \in Tenants, NEW p \in Patterns,
               GrantPermission(t, p) \/ RevokePermission(t, p)
        PROVE  TruthInv'
    BY <2>3, PermissionStep DEF GrantPermission, RevokePermission
  <2>4. ASSUME NEW s \in Sessions, RunGoroutine(s) PROVE TruthInv'
    BY <2>4, CallStep DEF RunGoroutine
  <2>5. ASSUME NEW s \in Sessions, CtxDone(s) PROVE TruthInv'
    <3>1. BatchShape'
      BY <2>5 DEF CtxDone, registryVars, TruthInv, BatchShape
    <3> QED BY <2>5, <3>1, RestingStep DEF CtxDone, registryVars
  <2>6. ASSUME NEW s \in Sessions, ToolNodeBegins(s) PROVE TruthInv'
    <3> DEFINE batch == toolCall[s]
    <3>1. /\ UNCHANGED <<registryVars, tenant>>
          /\ calls' = [calls EXCEPT ![s] = batch]
          /\ gpc' = [gpc EXCEPT ![s] = [i \in DOMAIN batch |-> "authorize"]]
          /\ results' = [results EXCEPT ![s] = [i \in DOMAIN batch |-> NoResult]]
          /\ window' = [window EXCEPT ![s] = {allowed[tenant[s]]}]
      BY <2>6 DEF ToolNodeBegins, ExecuteConcurrent
    <3>2. BatchShape'
      BY <3>1 DEF TruthInv, BatchShape, registryVars
    <3>3. ASSUME NEW t \in Sessions, NEW i \in DOMAIN calls'[t] PROVE CallTruthful(t, i)'
      <4>1. CASE t = s
        <5>1. gpc'[s][i] = "authorize"
          BY <3>1, <3>3, <4>1 DEF TruthInv, BatchShape
        <5> QED BY <4>1, <5>1 DEF CallTruthful
      <4>2. CASE t # s
        <5>1. /\ calls'[t] = calls[t] /\ gpc'[t] = gpc[t] /\ results'[t] = results[t]
              /\ window'[t] = window[t] /\ tools' = tools /\ tenant' = tenant
          BY <3>1, <4>2 DEF TruthInv, BatchShape, registryVars
        <5>2. CallTruthful(t, i)
          BY <3>3, <5>1 DEF TruthInv
        <5> QED BY <5>1, <5>2, RestingCall
      <4> QED BY <4>1, <4>2
    <3> QED BY <3>2, <3>3 DEF TruthInv
  <2>7. ASSUME NEW s \in Sessions, ToolNodeEnds(s) PROVE TruthInv'
    <3>1. /\ UNCHANGED <<registryVars, tenant>>
          /\ calls' = [calls EXCEPT ![s] = <<>>]
          /\ gpc' = [gpc EXCEPT ![s] = <<>>]
          /\ results' = [results EXCEPT ![s] = <<>>]
          /\ window' = [window EXCEPT ![s] = {}]
      BY <2>7 DEF ToolNodeEnds
    <3>2. \A t \in Sessions \ {s} :
              /\ calls'[t] = calls[t] /\ gpc'[t] = gpc[t] /\ results'[t] = results[t]
              /\ window'[t] = window[t] /\ tools' = tools /\ tenant' = tenant
      BY <3>1 DEF TruthInv, BatchShape, registryVars
    <3>3. calls'[s] = <<>> /\ gpc'[s] = <<>> /\ results'[s] = <<>>
      BY <3>1 DEF TruthInv, BatchShape
    <3>4. DOMAIN <<>> = {}
      OBVIOUS
    <3>5. BatchShape'
      BY <3>1, <3>2, <3>3 DEF TruthInv, BatchShape, registryVars
    <3>6. tools' = tools /\ tenant' = tenant
      BY <3>1 DEF registryVars
    <3> QED BY <3>2, <3>3, <3>4, <3>5, <3>6, RestingStep
  <2>8. \/ UNCHANGED toolVars
        \/ \E tool \in Tools : Register(tool)
        \/ \E t \in Tenants, p \in Patterns : GrantPermission(t, p) \/ RevokePermission(t, p)
        \/ \E s \in Sessions : \/ RunGoroutine(s) \/ CtxDone(s)
                               \/ ToolNodeBegins(s) \/ ToolNodeEnds(s)
    BY DEF Next, Administer, Agent, Plan, Revise, ReviseFails, LLMNode, Reload, vars
  <2> QED BY <2>1, <2>2, <2>3, <2>4, <2>5, <2>6, <2>7, <2>8
<1> QED BY <1>1, <1>2, PTL DEF Spec

\* When a batch is back every result is at its call's place and true of some
\* moment of the batch, whatever was registered, granted or revoked meanwhile
\* (registry.go:78-112, 116-163).
THEOREM ResultsAreTruthful == Spec => []ResultsTruthful
<1>1. TruthInv => ResultsTruthful
  <2> SUFFICES ASSUME TruthInv PROVE ResultsTruthful
    OBVIOUS
  <2>1. ASSUME NEW s \in Sessions, NEW i \in DOMAIN calls[s], gpc[s][i] = "done"
        PROVE  /\ results[s][i].call = i
               /\ results[s][i].kind # "none"
               /\ results[s][i].kind = "denied" => WasDenied(s, i)
               /\ results[s][i].kind \in {"output", "error"} =>
                     WasAllowed(s, i) /\ calls[s][i].tool \in tools
    <3>1. CallTruthful(s, i)
      BY DEF TruthInv
    <3> QED BY ONLY <2>1, <3>1 DEF CallTruthful
  <2> QED BY ONLY <2>1, Zenon DEF ResultsTruthful, BatchDone, WasAllowed, WasDenied, May
<1> QED BY <1>1, TruthInductive, PTL
-----------------------------------------------------------------------------
(* The plan *)

Observations == {"", "thought", "results"}
PlanStep == [node : Nodes, status : {"Pending", "Running", "Completed"}, obs : Observations]

\* The first d - 1 steps are completed, step d is running, the others wait.
Lagging(plan, d) ==
    \A i \in 1..Len(plan) :
        plan[i].status = IF i < d THEN "Completed" ELSE IF i = d THEN "Running" ELSE "Pending"

\* The first d steps are completed and no step is running.
Caught(plan, d) ==
    \A i \in 1..Len(plan) : plan[i].status = IF i <= d THEN "Completed" ELSE "Pending"

\* First finds the least position that has the status.
LEMMA FirstIs ==
    ASSUME NEW plan \in Seq(PlanStep), NEW status, NEW i \in 1..Len(plan),
           plan[i].status = status,
           \A j \in 1..Len(plan) : plan[j].status = status => i <= j
    PROVE  First(plan, status) = i
<1> DEFINE hits == {j \in DOMAIN plan : plan[j].status = status}
           least == CHOOSE k \in hits : \A j \in hits : k <= j
<1>1. i \in hits /\ \A j \in hits : i <= j
  OBVIOUS
<1>2. least \in hits /\ \A j \in hits : least <= j
  <2>1. \E k \in hits : \A j \in hits : k <= j
    BY <1>1
  <2> HIDE DEF hits
  <2> QED BY <2>1
<1>3. least = i
  <2>1. hits \subseteq Nat
    OBVIOUS
  <2>2. least <= i /\ i <= least /\ least \in Nat /\ i \in Nat
    BY <1>1, <1>2, <2>1
  <2> HIDE DEF least
  <2> QED BY <2>2
<1>4. hits # {}
  BY <1>1
<1> QED BY <1>3, <1>4 DEF First

\* Revise completes the running step with the observation (react.go:104-117).
LEMMA RunningIsCompleted ==
    ASSUME NEW plan \in Seq(PlanStep), NEW d \in Nat, Len(plan) = d + 1,
           Lagging(plan, d), NEW obs \in Observations
    PROVE  LET q == CompleteRunning(plan, obs) IN
           /\ q \in Seq(PlanStep) /\ Len(q) = d + 1
           /\ Caught(q, d)
           /\ \A i \in 1..(d + 1) : q[i].node = plan[i].node
           /\ \A i \in 1..d : q[i].obs = IF i = d THEN obs ELSE plan[i].obs
<1>1. CASE d = 0
  <2>1. {i \in DOMAIN plan : plan[i].status = "Running"} = {}
    BY <1>1 DEF Lagging
  <2>2. CompleteRunning(plan, obs) = plan
    BY <2>1 DEF CompleteRunning, First
  <2> QED BY <1>1, <2>2 DEF Lagging, Caught
<1>2. CASE d # 0
  <2>1. d \in 1..Len(plan) /\ plan[d].status = "Running"
    BY <1>2 DEF Lagging
  <2>2. First(plan, "Running") = d
    <3>1. \A j \in 1..Len(plan) : plan[j].status = "Running" => d <= j
      BY DEF Lagging
    <3> QED BY <2>1, <3>1, FirstIs
  <2> DEFINE step == [plan[d] EXCEPT !.status = "Completed", !.obs = obs]
  <2>3. CompleteRunning(plan, obs) = [plan EXCEPT ![d] = step]
    BY <1>2, <2>2 DEF CompleteRunning
  <2>4. /\ step \in PlanStep /\ step.status = "Completed" /\ step.obs = obs
        /\ step.node = plan[d].node
    <3>1. plan[d] \in PlanStep
      BY <2>1
    <3> QED BY <3>1 DEF PlanStep
  <2> HIDE DEF step
  <2>5. [plan EXCEPT ![d] = step] \in Seq(PlanStep)
    BY <2>1, <2>4
  <2>6. /\ Len([plan EXCEPT ![d] = step]) = d + 1
        /\ \A i \in 1..(d + 1) : [plan EXCEPT ![d] = step][i] = IF i = d THEN step ELSE plan[i]
    BY <2>1
  <2> QED BY <2>3, <2>4, <2>5, <2>6 DEF Lagging, Caught
<1> QED BY <1>1, <1>2

\* The limit counts the steps that are completed (react.go:128-136).
LEMMA CompletedCount ==
    ASSUME NEW plan \in Seq(PlanStep), NEW d \in Nat, Len(plan) = d + 1, Caught(plan, d)
    PROVE  CompletedTotal(plan) = d
<1>1. {i \in DOMAIN plan : plan[i].status = "Completed"} = 1..d
  BY DEF Caught
<1>2. Cardinality(1..d) = d
  BY FS_Interval
<1> QED BY <1>1, <1>2 DEF CompletedTotal

\* Revise sets the step before the new one running (react.go:161-171).
LEMMA PendingIsStarted ==
    ASSUME NEW plan \in Seq(PlanStep), NEW d \in Nat, Len(plan) = d + 1, Caught(plan, d),
           NEW node \in Nodes
    PROVE  LET q == StartPending(Append(plan, Step(node))) IN
           /\ q \in Seq(PlanStep) /\ Len(q) = d + 2
           /\ Lagging(q, d + 1)
           /\ \A i \in 1..(d + 1) : q[i].node = plan[i].node /\ q[i].obs = plan[i].obs
           /\ q[d + 2].node = node
<1> DEFINE longer == Append(plan, Step(node))
           k == d + 1
           step == [longer[k] EXCEPT !.status = "Running"]
<1>1. Step(node) \in PlanStep /\ Step(node).status = "Pending" /\ Step(node).node = node
  BY DEF Step, PlanStep, Observations
<1>2. /\ longer \in Seq(PlanStep) /\ Len(longer) = d + 2 /\ k \in 1..Len(longer)
      /\ \A i \in 1..k : longer[i] = plan[i]
      /\ longer[d + 2] = Step(node)
  BY <1>1
<1> HIDE DEF longer
<1>3. First(longer, "Pending") = k
  <2>1. longer[k].status = "Pending"
    BY <1>2 DEF Caught
  <2>2. \A j \in 1..Len(longer) : longer[j].status = "Pending" => k <= j
    <3> SUFFICES ASSUME NEW j \in 1..Len(longer), j < k PROVE longer[j].status # "Pending"
      BY <1>2
    <3> QED BY <1>2 DEF Caught
  <2> QED BY <1>2, <2>1, <2>2, FirstIs
<1>4. StartPending(longer) = [longer EXCEPT ![k] = step]
  <2>1. k # 0
    OBVIOUS
  <2> HIDE DEF k
  <2> QED BY <1>3, <2>1 DEF StartPending
<1>5. /\ step \in PlanStep /\ step.status = "Running" /\ step.node = longer[k].node
      /\ step.obs = longer[k].obs
  <2>1. longer[k] \in PlanStep
    BY <1>2
  <2> QED BY <2>1 DEF PlanStep
<1> HIDE DEF step
<1>6. /\ [longer EXCEPT ![k] = step] \in Seq(PlanStep)
      /\ Len([longer EXCEPT ![k] = step]) = d + 2
      /\ \A i \in 1..(d + 2) : [longer EXCEPT ![k] = step][i] = IF i = k THEN step ELSE longer[i]
  BY <1>2, <1>5
<1>7. Lagging([longer EXCEPT ![k] = step], k)
  BY <1>1, <1>2, <1>5, <1>6 DEF Lagging, Caught
<1>8. /\ \A i \in 1..(d + 1) : /\ [longer EXCEPT ![k] = step][i].node = plan[i].node
                               /\ [longer EXCEPT ![k] = step][i].obs = plan[i].obs
      /\ [longer EXCEPT ![k] = step][d + 2].node = node
  BY <1>1, <1>2, <1>5, <1>6
<1> QED BY <1>4, <1>6, <1>7, <1>8 DEF longer

PlanTypeOK ==
    /\ pc \in [Sessions -> {"plan", "node", "tools", "revise", "end", "error"}]
    /\ next \in [Sessions -> Nodes]
    /\ steps \in [Sessions -> Seq(PlanStep)]
    /\ observation \in [Sessions -> Observations]
    /\ executed \in [Sessions -> Seq(Nodes)]
    /\ observed \in [Sessions -> Seq(Observations)]

\* A node has run that Revise has not seen.
Unseen(s) == pc[s] \in {"revise", "error"}

\* How many nodes have run, steps are planned and rounds are left.
Counts(s) ==
    /\ Len(executed[s]) = IF Unseen(s) THEN Len(observed[s]) + 1 ELSE Len(observed[s])
    /\ pc[s] = "plan" => Len(observed[s]) = 0 /\ Len(steps[s]) = 0
    /\ pc[s] # "plan" => Len(steps[s]) = Len(observed[s]) + 1
    /\ Len(observed[s]) <= IF pc[s] = "end" THEN maxRounds + 1 ELSE maxRounds

\* What the steps say.  The step that ends the run at the limit is not started.
Contents(s) ==
    /\ \A i \in 1..Len(executed[s]) : steps[s][i].node = executed[s][i]
    /\ pc[s] # "plan" => steps[s][Len(observed[s]) + 1].node = next[s]
    /\ \A i \in 1..Len(steps[s]) : (steps[s][i].status = "Completed") = (i < Len(observed[s]))
    /\ \/ Lagging(steps[s], Len(observed[s]))
       \/ pc[s] = "end" /\ \A i \in 1..Len(steps[s]) : steps[s][i].status # "Running"
    /\ \A i \in 1..Len(steps[s]) :
           i < Len(observed[s]) => steps[s][i].obs = observed[s][i + 1]

PlanInv == PlanTypeOK /\ \A s \in Sessions : Counts(s) /\ Contents(s)

LEMMA RoundsPositive == maxRounds \in Nat \ {0}
BY PlannerAssumption DEF maxRounds

\* One agent moves and keeps its plan in order; the others rest.
LEMMA OneAgent ==
    ASSUME PlanInv, PlanTypeOK', NEW s \in Sessions, Counts(s)', Contents(s)',
           \A t \in Sessions \ {s} :
               /\ pc'[t] = pc[t] /\ next'[t] = next[t] /\ steps'[t] = steps[t]
               /\ executed'[t] = executed[t] /\ observed'[t] = observed[t]
    PROVE  PlanInv'
<1>1. ASSUME NEW t \in Sessions \ {s} PROVE Counts(t)' /\ Contents(t)'
  <2>1. Counts(t) /\ Contents(t)
    BY DEF PlanInv
  <2>2. /\ pc'[t] = pc[t] /\ next'[t] = next[t] /\ steps'[t] = steps[t]
        /\ executed'[t] = executed[t] /\ observed'[t] = observed[t]
    OBVIOUS
  <2>3. Counts(t)'
    BY ONLY <2>1, <2>2 DEF Counts, Unseen
  <2>4. Contents(t)'
    BY ONLY <2>1, <2>2, Zenon DEF Contents, Lagging
  <2> QED BY <2>3, <2>4
<1>2. \A t \in Sessions : Counts(t)' /\ Contents(t)'
  BY <1>1
<1> QED BY ONLY <1>2, PlanTypeOK' DEF PlanInv

\* The plan is touched by Plan and Revise, and lags one step behind throughout
\* (react.go:76-174).
LEMMA PlanInductive == Spec => []PlanInv
<1>1. Init => PlanInv
  <2> SUFFICES ASSUME Init PROVE PlanInv
    OBVIOUS
  <2>1. PlanTypeOK
    <3>1. /\ <<>> \in Seq(PlanStep) /\ <<>> \in Seq(Nodes) /\ <<>> \in Seq(Observations)
          /\ "LLMNode" \in Nodes /\ "" \in Observations
      BY DEF Nodes, Observations
    <3> QED BY <3>1 DEF Init, PlanTypeOK
  <2>2. ASSUME NEW s \in Sessions PROVE Counts(s) /\ Contents(s)
    <3>1. pc[s] = "plan" /\ steps[s] = <<>> /\ executed[s] = <<>> /\ observed[s] = <<>>
      BY DEF Init
    <3> QED BY <3>1, RoundsPositive DEF Counts, Contents, Unseen, Lagging
  <2> QED BY <2>1, <2>2 DEF PlanInv
<1>2. PlanInv /\ [Next]_vars => PlanInv'
  <2> SUFFICES ASSUME PlanInv, [Next]_vars PROVE PlanInv'
    OBVIOUS
  <2>1. CASE UNCHANGED <<pc, next, steps, observation, executed, observed>>
    <3>1. PlanTypeOK'
      BY <2>1 DEF PlanInv, PlanTypeOK
    <3>2. ASSUME NEW s \in Sessions PROVE Counts(s)' /\ Contents(s)'
      <4>1. Counts(s) /\ Contents(s)
        BY DEF PlanInv
      <4>2. Counts(s)'
        BY ONLY <2>1, <4>1 DEF Counts, Unseen
      <4>3. Contents(s)'
        BY ONLY <2>1, <4>1, Zenon DEF Contents, Lagging
      <4> QED BY <4>2, <4>3
    <3> QED BY ONLY <3>1, <3>2 DEF PlanInv
  <2>2. ASSUME NEW s \in Sessions, Plan(s) PROVE PlanInv'
    <3>1. /\ pc[s] = "plan" /\ Counts(s)
          /\ steps' = [steps EXCEPT ![s] = <<Step("LLMNode")>>]
          /\ next' = [next EXCEPT ![s] = "LLMNode"]
          /\ pc' = [pc EXCEPT ![s] = "node"]
          /\ UNCHANGED <<observation, executed, observed>>
      BY <2>2 DEF Plan, PlanInv
    <3>2. Step("LLMNode") \in PlanStep /\ Step("LLMNode").node = "LLMNode"
          /\ Step("LLMNode").status = "Pending"
      BY DEF Step, PlanStep, Nodes, Observations
    <3>3. /\ pc'[s] = "node" /\ next'[s] = "LLMNode" /\ steps'[s] = <<Step("LLMNode")>>
          /\ executed'[s] = executed[s] /\ observed'[s] = observed[s]
      BY <3>1 DEF PlanInv, PlanTypeOK
    <3>4. PlanTypeOK'
      <4>1. <<Step("LLMNode")>> \in Seq(PlanStep)
        BY <3>2
      <4> QED BY <3>1, <4>1 DEF PlanInv, PlanTypeOK, Nodes
    <3>5. Len(observed[s]) = 0 /\ Len(executed[s]) = 0
      BY <3>1 DEF Counts, Unseen
    <3>6. Counts(s)'
      BY <3>3, <3>5, RoundsPositive DEF Counts, Unseen
    <3>7. Contents(s)'
      BY <3>2, <3>3, <3>5 DEF Contents, Lagging
    <3> QED BY <3>1, <3>4, <3>6, <3>7, OneAgent DEF PlanInv, PlanTypeOK
  <2>3. ASSUME NEW s \in Sessions, Revise(s) PROVE PlanInv'
    <3> DEFINE d == Len(observed[s])
               plan == CompleteRunning(steps[s], observation[s])
               node == Choose(toolCall[s], observation[s])
               longer == Append(plan, Step("__terminal__"))
               started == StartPending(Append(plan, Step(node)))
    <3>1. /\ pc[s] = "revise" /\ Counts(s) /\ Contents(s)
          /\ UNCHANGED <<observation, executed>>
          /\ observed' = [observed EXCEPT ![s] = Append(@, observation[s])]
      BY <2>3 DEF Revise, PlanInv
    <3>2. /\ steps[s] \in Seq(PlanStep) /\ observation[s] \in Observations
          /\ observed[s] \in Seq(Observations) /\ executed[s] \in Seq(Nodes)
      BY DEF PlanInv, PlanTypeOK
    <3>3. /\ d \in Nat /\ Len(executed[s]) = d + 1 /\ Len(steps[s]) = d + 1
          /\ d <= maxRounds /\ Lagging(steps[s], d)
      BY <3>1, <3>2 DEF Counts, Contents, Unseen
    <3>4. /\ plan \in Seq(PlanStep) /\ Len(plan) = d + 1
          /\ Caught(plan, d)
          /\ \A i \in 1..(d + 1) : plan[i].node = steps[s][i].node
          /\ \A i \in 1..d : plan[i].obs = IF i = d THEN observation[s] ELSE steps[s][i].obs
      BY <3>2, <3>3, RunningIsCompleted
    <3>5. CompletedTotal(plan) = d
      BY <3>3, <3>4, CompletedCount
    <3>6. /\ observed'[s] = Append(observed[s], observation[s])
          /\ Len(observed'[s]) = d + 1
          /\ \A i \in 1..d : observed'[s][i] = observed[s][i]
          /\ observed'[s][d + 1] = observation[s]
          /\ executed'[s] = executed[s]
      BY <3>1, <3>2 DEF PlanInv, PlanTypeOK
    <3>7. observed' \in [Sessions -> Seq(Observations)]
      BY <3>1, <3>2 DEF PlanInv, PlanTypeOK
    <3>8. node \in Nodes
      BY DEF Choose, Nodes
    <3>9. \A i \in 1..(d + 1) : plan[i].node = executed[s][i]
      BY <3>1, <3>3, <3>4 DEF Contents
    <3>10. \A i \in 1..d : plan[i].obs = observed'[s][i + 1]
      <4> SUFFICES ASSUME NEW i \in 1..d PROVE plan[i].obs = observed'[s][i + 1]
        OBVIOUS
      <4>1. CASE i = d
        BY <3>3, <3>4, <3>6, <4>1
      <4>2. CASE i < d
        <5>1. steps[s][i].obs = observed[s][i + 1]
          <6>1. Contents(s) /\ i \in 1..Len(steps[s]) /\ i < Len(observed[s])
            BY <3>1, <3>3, <4>2
          <6> QED BY ONLY <6>1 DEF Contents
        <5>2. observed'[s][i + 1] = observed[s][i + 1]
          BY <3>3, <3>6, <4>2
        <5> QED BY <3>3, <3>4, <4>2, <5>1, <5>2
      <4> QED BY <3>3, <4>1, <4>2
    <3>11. CASE d >= maxRounds
      <4>1. /\ steps' = [steps EXCEPT ![s] = longer]
            /\ next' = [next EXCEPT ![s] = "__terminal__"]
        BY <2>3, <3>5, <3>11 DEF Revise
      <4>2. next'[s] = "__terminal__" /\ steps'[s] = longer
        BY <4>1 DEF PlanInv, PlanTypeOK
      <4>3. pc' = [pc EXCEPT ![s] = "end"] /\ pc'[s] = "end"
        BY <2>3, <4>2 DEF Revise, PlanInv, PlanTypeOK
      <4>4. /\ Step("__terminal__") \in PlanStep /\ Step("__terminal__").status = "Pending"
            /\ Step("__terminal__").node = "__terminal__"
        BY DEF Step, PlanStep, Nodes, Observations
      <4>5. /\ longer \in Seq(PlanStep) /\ Len(longer) = d + 2
            /\ \A i \in 1..(d + 1) : longer[i] = plan[i]
            /\ longer[d + 2].status = "Pending" /\ longer[d + 2].node = "__terminal__"
        BY <3>3, <3>4, <4>4
      <4> HIDE DEF longer, plan
      <4>6. PlanTypeOK'
        BY <3>1, <3>7, <4>1, <4>3, <4>5 DEF PlanInv, PlanTypeOK, Nodes
      <4>7. Counts(s)'
        BY <3>3, <3>6, <4>2, <4>3, <4>5, RoundsPositive DEF Counts, Unseen
      <4>8. Contents(s)'
        <5>1. \A i \in 1..Len(steps'[s]) :
                 /\ (steps'[s][i].status = "Completed") = (i < Len(observed'[s]))
                 /\ steps'[s][i].status # "Running"
          <6> SUFFICES ASSUME NEW i \in 1..(d + 2)
                       PROVE  /\ (longer[i].status = "Completed") = (i < d + 1)
                              /\ longer[i].status # "Running"
            BY <3>6, <4>2, <4>5
          <6>1. CASE i <= d + 1
            <7>1. longer[i] = plan[i] /\ i \in 1..Len(plan)
              BY <3>3, <3>4, <4>5, <6>1
            <7>2. plan[i].status = IF i <= d THEN "Completed" ELSE "Pending"
              BY <3>4, <7>1 DEF Caught
            <7> QED BY <3>3, <6>1, <7>1, <7>2
          <6>2. CASE i = d + 2
            BY <3>3, <4>5, <6>2
          <6> QED BY <3>3, <6>1, <6>2
        <5>2. \A i \in 1..Len(steps'[s]) :
                 i < Len(observed'[s]) => steps'[s][i].obs = observed'[s][i + 1]
          <6> SUFFICES ASSUME NEW i \in 1..(d + 2), i < d + 1
                       PROVE  longer[i].obs = observed'[s][i + 1]
            BY <3>6, <4>2, <4>5
          <6>1. i \in 1..d /\ i \in 1..(d + 1)
            BY <3>3
          <6> QED BY ONLY <3>10, <4>5, <6>1
        <5>3. \A i \in 1..Len(executed'[s]) : steps'[s][i].node = executed'[s][i]
          BY <3>3, <3>6, <3>9, <4>2, <4>5
        <5>4. steps'[s][Len(observed'[s]) + 1].node = next'[s]
          BY <3>3, <3>6, <4>2, <4>5
        <5> QED BY <4>3, <5>1, <5>2, <5>3, <5>4 DEF Contents
      <4> QED BY <3>1, <4>1, <4>3, <4>6, <4>7, <4>8, OneAgent DEF PlanInv, PlanTypeOK
    <3>12. CASE d < maxRounds
      <4>1. /\ steps' = [steps EXCEPT ![s] = started]
            /\ next' = [next EXCEPT ![s] = node]
        BY <2>3, <3>3, <3>5, <3>12, RoundsPositive DEF Revise
      <4>2. next'[s] = node /\ steps'[s] = started
        BY <4>1 DEF PlanInv, PlanTypeOK
      <4> DEFINE at == IF node = "__terminal__" THEN "end" ELSE "node"
      <4>3. pc' = [pc EXCEPT ![s] = at] /\ pc'[s] = at
        BY <2>3, <4>2 DEF Revise, PlanInv, PlanTypeOK
      <4>4. /\ started \in Seq(PlanStep) /\ Len(started) = d + 2
            /\ Lagging(started, d + 1)
            /\ \A i \in 1..(d + 1) : started[i].node = plan[i].node /\ started[i].obs = plan[i].obs
            /\ started[d + 2].node = node
        BY <3>3, <3>4, <3>8, PendingIsStarted
      <4>5. at \in {"end", "node"}
        OBVIOUS
      <4> HIDE DEF started, plan, node, at
      <4>6. PlanTypeOK'
        BY <3>1, <3>7, <3>8, <4>1, <4>3, <4>4, <4>5 DEF PlanInv, PlanTypeOK
      <4>7. Counts(s)'
        BY <3>3, <3>6, <3>12, <4>2, <4>3, <4>4, <4>5, RoundsPositive DEF Counts, Unseen
      <4>8. Contents(s)'
        <5>1. \A i \in 1..Len(steps'[s]) :
                 (steps'[s][i].status = "Completed") = (i < Len(observed'[s]))
          BY <3>3, <3>6, <4>2, <4>4 DEF Lagging
        <5>2. \A i \in 1..Len(steps'[s]) :
                 i < Len(observed'[s]) => steps'[s][i].obs = observed'[s][i + 1]
          <6> SUFFICES ASSUME NEW i \in 1..(d + 2), i < d + 1
                       PROVE  started[i].obs = observed'[s][i + 1]
            BY <3>6, <4>2, <4>4
          <6>1. i \in 1..d /\ i \in 1..(d + 1)
            BY <3>3
          <6> QED BY ONLY <3>10, <4>4, <6>1
        <5>3. \A i \in 1..Len(executed'[s]) : steps'[s][i].node = executed'[s][i]
          BY ONLY <3>3, <3>6, <3>9, <4>2, <4>4
        <5>4. steps'[s][Len(observed'[s]) + 1].node = next'[s]
          BY ONLY <3>3, <3>6, <4>2, <4>4
        <5>5. Lagging(steps'[s], Len(observed'[s]))
          BY ONLY <3>6, <4>2, <4>4
        <5> QED BY ONLY <5>1, <5>2, <5>3, <5>4, <5>5 DEF Contents
      <4> QED BY <3>1, <4>1, <4>3, <4>6, <4>7, <4>8, OneAgent DEF PlanInv, PlanTypeOK
    <3> QED BY <3>3, <3>11, <3>12, RoundsPositive
  <2>4. ASSUME NEW s \in Sessions, NEW obs \in Observations, NEW at \in {"node", "tools"},
               pc[s] = at, NodeEnds(s, obs)
        PROVE  PlanInv'
    <3>1. /\ pc' = [pc EXCEPT ![s] = "revise"]
          /\ observation' = [observation EXCEPT ![s] = obs]
          /\ executed' = [executed EXCEPT ![s] = Append(@, next[s])]
          /\ UNCHANGED <<next, steps, observed>>
      BY <2>4 DEF NodeEnds
    <3>2. executed[s] \in Seq(Nodes) /\ next[s] \in Nodes /\ Counts(s) /\ Contents(s)
          /\ steps[s] \in Seq(PlanStep) /\ observed[s] \in Seq(Observations)
      BY DEF PlanInv, PlanTypeOK
    <3>3. /\ pc'[s] = "revise" /\ executed'[s] = Append(executed[s], next[s])
          /\ steps'[s] = steps[s] /\ observed'[s] = observed[s]
      BY <3>1 DEF PlanInv, PlanTypeOK
    <3>4. PlanTypeOK'
      <4>1. Append(executed[s], next[s]) \in Seq(Nodes)
        BY <3>2
      <4> QED BY <3>1, <4>1 DEF PlanInv, PlanTypeOK
    <3>5. /\ Len(executed[s]) = Len(observed[s]) /\ Len(steps[s]) = Len(observed[s]) + 1
          /\ Len(observed[s]) \in Nat
          /\ steps[s][Len(observed[s]) + 1].node = next[s]
      BY <2>4, <3>2 DEF Counts, Contents, Unseen
    <3>6. /\ Len(executed'[s]) = Len(executed[s]) + 1
          /\ \A i \in 1..Len(executed[s]) : executed'[s][i] = executed[s][i]
          /\ executed'[s][Len(executed[s]) + 1] = next[s]
      BY <3>2, <3>3
    <3>7. Counts(s)'
      BY <2>4, <3>2, <3>3, <3>5, <3>6 DEF Counts, Unseen
    <3>8. Contents(s)'
      <4>1. \A i \in 1..Len(executed'[s]) : steps'[s][i].node = executed'[s][i]
        <5> SUFFICES ASSUME NEW i \in 1..(Len(observed[s]) + 1)
                     PROVE  steps[s][i].node = executed'[s][i]
          BY <3>3, <3>5, <3>6
        <5>1. CASE i \in 1..Len(executed[s])
          <6>1. steps[s][i].node = executed[s][i]
            BY <3>2, <5>1 DEF Contents
          <6> QED BY <3>6, <5>1, <6>1
        <5>2. CASE i = Len(observed[s]) + 1
          BY <3>5, <3>6, <5>2
        <5> QED BY <3>5, <5>1, <5>2
      <4>2. /\ next'[s] = next[s] /\ pc[s] # "end" /\ pc[s] # "plan"
        BY <2>4, <3>1
      <4>3. Lagging(steps'[s], Len(observed'[s]))
        BY <3>2, <3>3, <4>2 DEF Contents
      <4>4. \A i \in 1..Len(steps'[s]) :
               /\ (steps'[s][i].status = "Completed") = (i < Len(observed'[s]))
               /\ i < Len(observed'[s]) => steps'[s][i].obs = observed'[s][i + 1]
        BY <3>2, <3>3 DEF Contents
      <4>5. steps'[s][Len(observed'[s]) + 1].node = next'[s]
        BY <3>3, <3>5, <4>2
      <4> QED BY <4>1, <4>3, <4>4, <4>5 DEF Contents
    <3> QED BY <3>1, <3>4, <3>7, <3>8, OneAgent DEF PlanInv, PlanTypeOK
  <2>5. ASSUME NEW s \in Sessions, LLMNode(s) \/ ToolNodeEnds(s) PROVE PlanInv'
    BY <2>4, <2>5 DEF LLMNode, ToolNodeEnds, Observations
  <2>6. ASSUME NEW s \in Sessions, NEW at \in {"tools", "error"},
               \/ pc[s] = "node" /\ at = "tools"
               \/ pc[s] = "revise" /\ at = "error",
               pc' = [pc EXCEPT ![s] = at],
               UNCHANGED <<next, steps, observation, executed, observed>>
        PROVE  PlanInv'
    <3>1. PlanTypeOK' /\ pc'[s] = at
      BY <2>6 DEF PlanInv, PlanTypeOK
    <3>2. Counts(s) /\ Contents(s)
      BY DEF PlanInv
    <3>3. Counts(s)' /\ Contents(s)'
      BY <2>6, <3>1, <3>2 DEF Counts, Contents, Unseen
    <3> QED BY <2>6, <3>1, <3>3, OneAgent DEF PlanInv, PlanTypeOK
  <2>7. ASSUME NEW s \in Sessions, ToolNodeBegins(s) \/ ReviseFails(s) PROVE PlanInv'
    BY <2>6, <2>7 DEF ToolNodeBegins, ReviseFails
  <2>8. \/ UNCHANGED <<pc, next, steps, observation, executed, observed>>
        \/ \E s \in Sessions : \/ Plan(s) \/ Revise(s) \/ LLMNode(s) \/ ToolNodeEnds(s)
                               \/ ToolNodeBegins(s) \/ ReviseFails(s)
    BY DEF Next, Administer, Agent, RunGoroutine, Reload, vars, planVars
  <2> QED BY <2>1, <2>2, <2>3, <2>5, <2>7, <2>8
<1> QED BY <1>1, <1>2, PTL DEF Spec

\* The plan of every agent follows its run, whatever the model asks for and
\* whatever becomes of tool_call, and completes no more steps than the limit
\* (react.go:94-174).
THEOREM PlansFollowRuns == Spec => []PlanFollowsRun
<1>1. PlanInv => PlanFollowsRun
  <2> SUFFICES ASSUME PlanInv, NEW s \in Sessions
               PROVE  LET plan == steps[s]
                          ran  == executed[s]
                          Are(status) == {i \in DOMAIN plan : plan[i].status = status}
                      IN /\ pc[s] # "plan" => plan # <<>> /\ plan[Len(plan)].node = next[s]
                         /\ \A i \in DOMAIN plan \cap DOMAIN ran : plan[i].node = ran[i]
                         /\ \A i \in Are("Completed") :
                               \A j \in DOMAIN plan \ Are("Completed") : i < j
                         /\ \A i \in Are("Running") : \A j \in DOMAIN plan \ {i} :
                               plan[j].status = IF j < i THEN "Completed" ELSE "Pending"
                         /\ \E first \in {1, 2} : \A i \in Are("Completed") :
                               /\ i + first - 1 \in DOMAIN observed[s]
                               /\ plan[i].obs = observed[s][i + first - 1]
                         /\ Cardinality(Are("Completed")) <= maxRounds
    BY DEF PlanFollowsRun
  <2> DEFINE d == Len(observed[s])
             completed == {i \in DOMAIN steps[s] : steps[s][i].status = "Completed"}
  <2>1. /\ Counts(s) /\ Contents(s) /\ d \in Nat /\ Len(executed[s]) \in Nat
        /\ DOMAIN steps[s] = 1..Len(steps[s]) /\ Len(steps[s]) \in Nat
        /\ DOMAIN executed[s] = 1..Len(executed[s]) /\ DOMAIN observed[s] = 1..d
    BY DEF PlanInv, PlanTypeOK
  <2>2. pc[s] # "plan" => steps[s] # <<>> /\ steps[s][Len(steps[s])].node = next[s]
    BY <2>1 DEF Counts, Contents
  <2>3. \A i \in DOMAIN steps[s] \cap DOMAIN executed[s] : steps[s][i].node = executed[s][i]
    BY <2>1 DEF Contents
  <2>4. \A i \in DOMAIN steps[s] : i \in completed <=> i < d
    BY <2>1 DEF Contents
  <2>5. \A i \in completed : \A j \in DOMAIN steps[s] \ completed : i < j
    BY <2>1, <2>4
  <2>6. ASSUME NEW i \in DOMAIN steps[s], steps[s][i].status = "Running",
               NEW j \in DOMAIN steps[s] \ {i}
        PROVE  steps[s][j].status = IF j < i THEN "Completed" ELSE "Pending"
    <3>1. Lagging(steps[s], d)
      BY <2>1, <2>6 DEF Contents
    <3>2. i = d
      BY <2>1, <2>6, <3>1 DEF Lagging
    <3> QED BY <2>1, <2>6, <3>1, <3>2 DEF Lagging
  <2>7. \A i \in completed : i + 2 - 1 \in DOMAIN observed[s]
                             /\ steps[s][i].obs = observed[s][i + 2 - 1]
    <3> SUFFICES ASSUME NEW i \in completed
                 PROVE  /\ i + 2 - 1 \in DOMAIN observed[s]
                        /\ steps[s][i].obs = observed[s][i + 2 - 1]
      OBVIOUS
    <3>1. i \in 1..Len(steps[s]) /\ i < d
      BY <2>1, <2>4
    <3>2. steps[s][i].obs = observed[s][i + 1]
      BY <2>1, <3>1 DEF Contents
    <3>3. i + 2 - 1 = i + 1 /\ i + 1 \in 1..d
      BY <2>1, <3>1
    <3> QED BY <2>1, <3>2, <3>3
  <2>8. Cardinality(completed) <= maxRounds
    <3>1. completed \subseteq 1..maxRounds
      BY <2>1, <2>4, RoundsPositive DEF Counts
    <3>2. IsFiniteSet(1..maxRounds) /\ Cardinality(1..maxRounds) = maxRounds
      BY RoundsPositive, FS_Interval
    <3> HIDE DEF completed
    <3>3. Cardinality(completed) <= Cardinality(1..maxRounds)
      BY <3>1, <3>2, FS_Subset
    <3> QED BY <3>2, <3>3
  <2> QED BY <2>2, <2>3, <2>5, <2>6, <2>7, <2>8
<1> QED BY <1>1, PlanInductive, PTL
=============================================================================
