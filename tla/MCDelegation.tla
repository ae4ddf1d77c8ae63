---------------------------- MODULE MCDelegation ----------------------------
(* A remote run of up to three events.  One client streams them, for one    *)
(* two webhooks are registered, one belongs to a tenant of its own, and two *)
(* are refused.                                                             *)
EXTENDS Delegation

MCFilter == [h \in {"h1", "h2"} |-> IF h = "h1" THEN {} ELSE {"TaskCompleted"}]

Client(ok, name, scope) == [valid |-> ok, tenant |-> name, scopes |-> {scope}]

MCSettings ==
    {[token |-> Client(TRUE, "", "agent:write"), streaming |-> TRUE, hooks |-> {},
      payloads |-> {"none", "artifact", "unnamed"}],
     [token |-> Client(TRUE, "default", "agent:write"), streaming |-> FALSE,
      hooks |-> {"h1", "h2"}, payloads |-> {"none"}],
     [token |-> Client(TRUE, "t2", "agent:admin"), streaming |-> FALSE, hooks |-> {"h1"},
      payloads |-> {"none"}],
     [token |-> Client(TRUE, "", "agent:read"), streaming |-> TRUE, hooks |-> {},
      payloads |-> {"none"}],
     [token |-> Client(FALSE, "", "agent:write"), streaming |-> TRUE, hooks |-> {},
      payloads |-> {"none"}]}
=============================================================================
