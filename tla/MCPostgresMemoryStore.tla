---------------------- MODULE MCPostgresMemoryStore -----------------------
EXTENDS PostgresMemoryStore, TLC

CONSTANTS s1, s2, a1, a2, a3

\* A batch that overflows the window by itself, and two single messages.
MCBatch == [a \in Appenders |-> IF a = a1 THEN <<"User", "Assistant">> ELSE <<"User">>]

\* Savers are interchangeable, and so are the calls with a single message.
Symmetry == Permutations({s1, s2}) \cup Permutations({a2, a3})
=============================================================================
