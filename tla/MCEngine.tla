------------------------------ MODULE MCEngine ------------------------------
EXTENDS Engine

\* Three nodes: a static edge, a router, and a terminal node.  A second edge
\* out of "a" is never taken: only the first one counts.
MCNodes == {"a", "b", "c"}
MCEdges == << [from |-> "a", to |-> "b", cond |-> FALSE],
              [from |-> "b", to |-> "none", cond |-> TRUE],
              [from |-> "a", to |-> "c", cond |-> FALSE] >>
MCTerminals == {"c"}
=============================================================================
