---------------------------- MODULE ToolRegistry ----------------------------
(***************************************************************************)
(* ConcreteToolRegistry (tools/registry.go): tools, the permissions of the *)
(* tenants, and batches of calls that each run in a goroutine of their own *)
(* while tools are registered and permissions granted and revoked.  The    *)
(* tools are the built-in ones (tools/builtins.go, tools/search_memory.go) *)
(* and those of a host; some are wrapped in a SandboxedTool, whose time-out *)
(* ends a context and no more: whether the call then returns is up to the  *)
(* tool.                                                                   *)
(***************************************************************************)
EXTENDS Naturals, Sequences, FiniteSets

CONSTANTS
    Sessions,   \* runs of agents; each has at most one batch at a time
    Tenants,    \* tenants, and "" for a context that names none
    HostTools,  \* tools of the host, which need not end by themselves
    Sandboxed,  \* tools wrapped in a SandboxedTool with a time-out
    Heeding,    \* tools of the host that return when their context is done
    Patterns,   \* permissions that are granted: names, "*", prefixes with ":*"
    Prefixed,   \* Prefixed[p]: the tools whose names begin with the prefix of p
    MaxAdmin    \* model bound: changes to the registry

BuiltIns == {"echo", "sleep", "search_memory"}
Tools    == BuiltIns \cup HostTools

\* A tool call; args tells whether the arguments have the type the tool asks for.
Call == [tool : Tools, args : {"good", "bad"}]

ASSUME RegistryAssumption ==
    /\ DOMAIN Prefixed \subseteq Patterns \ (Tools \cup {"*"})
    /\ \A p \in DOMAIN Prefixed : Prefixed[p] \subseteq Tools
    /\ Sandboxed \subseteq Tools
    /\ Heeding \subseteq HostTools
    /\ MaxAdmin \in Nat

VARIABLES
    tools,      \* names that are registered
    allowed,    \* allowed[t]: the permissions of tenant t
    admin,      \* changes made so far
    tenant,     \* tenant[s]: the tenant in the context of s
    calls,      \* calls[s]: the batch of s
    gpc,        \* gpc[s][i]: where the goroutine of its i-th call is
    results,    \* results[s][i]: the i-th element of results
    ctxDone,    \* ctxDone[s]: the context of s is done
    window      \* window[s]: the permissions s has had since its batch began (history)

registryVars == <<tools, allowed, admin>>
batchVars    == <<tenant, calls, gpc, results, ctxDone, window>>
toolVars     == <<registryVars, batchVars>>

NoResult == [call |-> 0, kind |-> "none"]

ToolInit ==
    /\ tools = {}
    /\ allowed = [t \in Tenants |-> {}]
    /\ admin = 0
    /\ tenant \in [Sessions -> Tenants]
    /\ calls = [s \in Sessions |-> <<>>]
    /\ gpc = [s \in Sessions |-> <<>>]
    /\ results = [s \in Sessions |-> <<>>]
    /\ ctxDone = [s \in Sessions |-> FALSE]
    /\ window = [s \in Sessions |-> {}]
-----------------------------------------------------------------------------
(* The registry *)

Change == admin < MaxAdmin /\ admin' = admin + 1

\* A name can be registered once.
Register(tool) ==
    /\ Change
    /\ tool \notin tools
    /\ tools' = tools \cup {tool}
    /\ UNCHANGED <<allowed, batchVars>>

\* New permissions are in force at once, for batches that are running too.
SetPermissions(t, perms) ==
    /\ Change
    /\ allowed' = [allowed EXCEPT ![t] = perms]
    /\ window' = [s \in Sessions |-> IF tenant[s] = t /\ calls[s] # <<>>
                                     THEN window[s] \cup {perms} ELSE window[s]]
    /\ UNCHANGED <<tools, tenant, calls, gpc, results, ctxDone>>

GrantPermission(t, p) == p \notin allowed[t] /\ SetPermissions(t, allowed[t] \cup {p})

RevokePermission(t, p) == p \in allowed[t] /\ SetPermissions(t, allowed[t] \ {p})

\* Whether a tenant with permissions perms may call a tool: by its name, by "*"
\* or by a prefix.  A context without a tenant is not restricted; a tenant
\* without a table has no permission.
Authorized(t, perms, tool) ==
    \/ t = ""
    \/ tool \in perms
    \/ "*" \in perms
    \/ \E p \in perms \cap DOMAIN Prefixed : tool \in Prefixed[p]
-----------------------------------------------------------------------------
(* Batches *)

\* ExecuteConcurrent starts a goroutine for each call.
ExecuteConcurrent(s, batch) ==
    /\ calls' = [calls EXCEPT ![s] = batch]
    /\ gpc' = [gpc EXCEPT ![s] = [i \in DOMAIN batch |-> "authorize"]]
    /\ results' = [results EXCEPT ![s] = [i \in DOMAIN batch |-> NoResult]]
    /\ window' = [window EXCEPT ![s] = {allowed[tenant[s]]}]
    /\ UNCHANGED <<registryVars, tenant, ctxDone>>

\* Mutant: the goroutines share the loop's variables.
SetResultShared(s, i, kind) ==
    /\ gpc' = [gpc EXCEPT ![s][i] = "done"]
    /\ results' = [results EXCEPT ![s][Len(calls[s])] = [call |-> i, kind |-> kind]]
    /\ UNCHANGED <<registryVars, tenant, calls, ctxDone, window>>

\* The goroutine of the i-th call writes its result and ends.
SetResult(s, i, kind) ==
    /\ gpc' = [gpc EXCEPT ![s][i] = "done"]
    /\ results' = [results EXCEPT ![s][i] = [call |-> i, kind |-> kind]]
    /\ UNCHANGED <<registryVars, tenant, calls, ctxDone, window>>

\* Mutant: a denied call leaves without wg.Done().
AuthorizeCallNotDone(s, i) ==
    /\ gpc[s][i] = "authorize"
    /\ gpc' = [gpc EXCEPT ![s][i] =
                 IF Authorized(tenant[s], allowed[tenant[s]], calls[s][i].tool)
                 THEN "find" ELSE "gone"]
    /\ UNCHANGED <<registryVars, tenant, calls, results, ctxDone, window>>

\* AuthorizeCall, under the read lock.
AuthorizeCall(s, i) ==
    /\ gpc[s][i] = "authorize"
    /\ LET t == tenant[s] IN
       IF Authorized(t, allowed[t], calls[s][i].tool)
       THEN /\ gpc' = [gpc EXCEPT ![s][i] = "find"]
            /\ UNCHANGED <<registryVars, tenant, calls, results, ctxDone, window>>
       ELSE SetResult(s, i, "denied")

\* The tool is looked up, under the lock again.
FindTool(s, i) ==
    /\ gpc[s][i] = "find"
    /\ IF calls[s][i].tool \in tools
       THEN /\ gpc' = [gpc EXCEPT ![s][i] = "execute"]
            /\ UNCHANGED <<registryVars, tenant, calls, results, ctxDone, window>>
       ELSE SetResult(s, i, "not found")

\* What Execute of a tool returns when it comes to its end by itself.
EchoTool(args)  == IF args = "good" THEN {"output"} ELSE {"error"}
SleepTool(args) == IF args = "good" THEN {"output"} ELSE {"error"}

\* The search of the session's messages may fail; that nothing was found is an
\* answer too.
SearchMemoryTool(args) == IF args = "good" THEN {"output", "error"} ELSE {"error"}

Outcome(call) ==
    CASE call.tool = "echo" -> EchoTool(call.args)
      [] call.tool = "sleep" -> SleepTool(call.args)
      [] call.tool = "search_memory" -> SearchMemoryTool(call.args)
      [] OTHER -> {"output", "error"}

ToolReturns(s, i) ==
    /\ gpc[s][i] = "execute"
    /\ \E kind \in Outcome(calls[s][i]) : SetResult(s, i, kind)

\* A tool that heeds its context returns an error once the session's context is
\* done or the time of its sandbox is over.  The sandbox calls the tool and
\* waits: one that does not look at its context, like echo, goes on.
ToolTimesOut(s, i) ==
    /\ gpc[s][i] = "execute"
    /\ calls[s][i].tool \in {"sleep", "search_memory"} \cup Heeding
    /\ ctxDone[s] \/ calls[s][i].tool \in Sandboxed
    /\ SetResult(s, i, "error")

\* The context of the session ends.
CtxDone(s) ==
    /\ ~ctxDone[s]
    /\ calls[s] # <<>>
    /\ ctxDone' = [ctxDone EXCEPT ![s] = TRUE]
    /\ UNCHANGED <<registryVars, tenant, calls, gpc, results, window>>

\* wg.Wait() returns.
BatchDone(s) == \A i \in DOMAIN calls[s] : gpc[s][i] = "done"

Goroutine(s, i) == AuthorizeCall(s, i) \/ FindTool(s, i) \/ ToolReturns(s, i) \/ ToolTimesOut(s, i)

\* The steps of a goroutine that are sure to come: built-in tools return.
SureStep(s, i) ==
    \/ AuthorizeCall(s, i) \/ FindTool(s, i) \/ ToolTimesOut(s, i)
    \/ calls[s][i].tool \in BuiltIns /\ ToolReturns(s, i)
=============================================================================
