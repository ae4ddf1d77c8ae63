--------------------------- MODULE MCEventStream ----------------------------
EXTENDS EventStream

CONSTANTS p1, p2, c1, c2    \* the two publishers and the two connections

\* The order of handleTaskEvents is kept; NodeCompleted is left out because
\* AgentPaused is treated alike.
MCTypes == <<"TaskCompleted", "AgentPaused">>

\* Each publisher works for the task that one of the connections watches.
MCTaskOf == [x \in {p1, p2, c1, c2} |-> IF x \in {p1, c1} THEN "t1" ELSE "t2"]

\* Two events fill a channel of capacity one and wait for it.  The publisher of
\* the other task only has to fill its watcher's channel.
MCMaxEvents == [p \in Publishers |-> IF p = p1 THEN 2 ELSE 1]
=============================================================================
