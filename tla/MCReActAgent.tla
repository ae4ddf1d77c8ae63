---------------------------- MODULE MCReActAgent ----------------------------
(* An agent with a tenant or without, and batches of one and two calls.     *)
EXTENDS ReActAgent

MCPrefixed == [p \in {"fs:*"} |-> {"fs:read"}]

MCBatches ==
    {<<[tool |-> "echo", args |-> "good"], [tool |-> "fs:read", args |-> "good"]>>,
     <<[tool |-> "sleep", args |-> "bad"]>>,
     <<[tool |-> "search_memory", args |-> "good"]>>}
=============================================================================
