------------------------ MODULE MCRedisMemoryStore --------------------------
EXTENDS RedisMemoryStore, TLC

CONSTANTS s1, s2, s3, a1, a2

\* One call appends more than the window holds.
MCBatch == [a \in Appends |-> IF a = a1 THEN 2 ELSE 1]

Symmetry == Permutations(Saves)
=============================================================================
